---- MODULE Spec2Model ----
(***************************************************************************)
(* Model of the SLATE benchmark core: the runner (runBenchmarks,           *)
(* runBenchmark, runChainBenchmark), the signature verification wrappers   *)
(* and the wallet services the runner drives.                              *)
(*                                                                         *)
(* The runner is a single async control flow.  Each action below is one    *)
(* resumption of that flow: the code between two suspension points, or     *)
(* one pass through a loop head.  pc names the position in the source.     *)
(***************************************************************************)
EXTENDS Integers, Sequences, FiniteSets, TLC

VARIABLES
    services,      \* input of runBenchmarks: the Map's entries in insertion order
    config,        \* input of runBenchmarks: the BenchmarkConfig
    pc,            \* position of the control flow
    svcIdx,        \* runBenchmarks: position of the for-of iterator (1-based)
    batchResults,  \* runBenchmarks: const results: BenchmarkResult[]
    result,        \* runBenchmark: const result: BenchmarkResult
    chain,         \* runChainBenchmark: parameter chain
    i,             \* runChainBenchmark: loop variable i
    results,       \* runChainBenchmark: const results: SigningResult[]
    serviceResult, \* runChainBenchmark: const serviceResult (<<>> when unset)
    signCalls,     \* history: signing calls started in the current chain run
    signFails,     \* history: signing calls of the current chain run that rejected
    failedIters,   \* history: iterations (values of i) of the current chain run whose
                   \*          signing attempt rejected or threw
    verifyCalls,   \* history: verification calls started in the current chain run
    gap,           \* history: sleeps since the last signing attempt of this chain run
    last,          \* history: what happened in the latest iteration of this chain run
    signArg,       \* history: message passed to the latest signing call
    verifyArgs,    \* history: arguments of the latest verification call (<<>> when none)
    svcLog,        \* history: per processed service, what runBenchmark did
    inFlight,      \* history: the capability calls and delays started and not settled
    magic,         \* the MagicWalletService object: its private fields
    magicLog,      \* history: the calls made on the MagicWalletService object
    allStats,      \* index.ts: const allStats = calculateAllStats(results) (<<>> when unset)
    rankings       \* what rankServicesByChain returned, per chain it was called for (<<>> when unset)

vars == <<services, config, pc, svcIdx, batchResults, result, chain, i, results,
          serviceResult, signCalls, signFails, failedIters, verifyCalls, gap, last,
          signArg, verifyArgs, svcLog, inFlight, magic, magicLog, allStats, rankings>>

----------------------------------------------------------------------------
(* Bounds of the explored inputs.                                          *)

MaxIter == 2
MaxWarmup == 1
MaxSamples == 3
MaxServices == 3
MaxDirectCalls == 2

(* Program constants.                                                      *)

DefaultWarmup == 2
DelayMs == 100

STANDARD_ETHEREUM_MESSAGE == "Hello, Ethereum"
STANDARD_SOLANA_MESSAGE == "Hello, Solana"

----------------------------------------------------------------------------
(* JavaScript numbers.  statistics.ts computes on IEEE-754 binary64        *)
(* values: every +, -, *, / returns the exact result rounded to the        *)
(* nearest value with a 53-bit significand, ties to even.  A number is     *)
(* modelled as [s, m, e] with value s * m * 2^e, where m is a natural      *)
(* number with exactly 53 bits (or 0 for zero) held as a little-endian     *)
(* sequence of 15-bit limbs, so that every intermediate integer stays      *)
(* below 2^31.  Infinities, NaN and subnormals are not modelled: they are  *)
(* out of reach of latencies in milliseconds.                              *)
(*                                                                         *)
(* An operator below takes its arguments by value, as a JavaScript         *)
(* function does: it binds each argument (written with a capital) to its   *)
(* value through a singleton set, so that an argument is evaluated once    *)
(* however often the body uses it.                                         *)

MantBits == 53

\* a limb holds 15 bits
Base == 2 ^ 15

Limb(a, k) == IF k <= Len(a) THEN a[k] ELSE 0

\* A without its leading zero limbs
BnNorm(A) ==
    CHOOSE r \in
      { IF \A k \in DOMAIN a : a[k] = 0 THEN <<>>
        ELSE SubSeq(a, 1, CHOOSE k \in DOMAIN a :
                             a[k] # 0 /\ \A j \in DOMAIN a : j > k => a[j] = 0)
        : a \in {A} } : TRUE

\* the natural number N < 2^31
BnFromInt(N) ==
    CHOOSE r \in
      { BnNorm(<<n % Base, (n \div Base) % Base, n \div (Base * Base)>>)
        : n \in {N} } : TRUE

\* the integer A < 2^30
BnToInt(A) ==
    CHOOSE r \in { Limb(a, 1) + Base * Limb(a, 2) : a \in {A} } : TRUE

\* -1, 0, 1 as A < B, A = B, A > B (A, B without leading zero limbs)
BnCmp(A, B) ==
    CHOOSE r \in
      { IF Len(a) < Len(b) THEN -1
        ELSE IF Len(a) > Len(b) THEN 1
        ELSE IF a = b THEN 0
        ELSE IF \E k \in DOMAIN a :
                   a[k] < b[k] /\ \A j \in DOMAIN a : j > k => a[j] = b[j]
        THEN -1 ELSE 1
        : a \in {A}, b \in {B} } : TRUE

RECURSIVE BnAddFrom(_, _, _, _)
\* the limbs from K on of A + B, with Carry into limb K
BnAddFrom(A, B, K, Carry) ==
    CHOOSE r \in
      { IF k > Len(a) /\ k > Len(b)
        THEN IF carry = 0 THEN <<>> ELSE <<carry>>
        ELSE <<(Limb(a, k) + Limb(b, k) + carry) % Base>>
             \o BnAddFrom(a, b, k + 1, (Limb(a, k) + Limb(b, k) + carry) \div Base)
        : a \in {A}, b \in {B}, k \in {K}, carry \in {Carry} } : TRUE

BnAdd(A, B) == BnNorm(BnAddFrom(A, B, 1, 0))

RECURSIVE BnSubFrom(_, _, _, _)
BnSubFrom(A, B, K, Borrow) ==
    CHOOSE r \in
      { IF k > Len(a) THEN <<>>
        ELSE IF a[k] - Limb(b, k) - borrow < 0
        THEN <<a[k] - Limb(b, k) - borrow + Base>> \o BnSubFrom(a, b, k + 1, 1)
        ELSE <<a[k] - Limb(b, k) - borrow>> \o BnSubFrom(a, b, k + 1, 0)
        : a \in {A}, b \in {B}, k \in {K}, borrow \in {Borrow} } : TRUE

\* A - B for A >= B
BnSub(A, B) == BnNorm(BnSubFrom(A, B, 1, 0))

RECURSIVE BnMulSmallFrom(_, _, _, _)
BnMulSmallFrom(A, D, K, Carry) ==
    CHOOSE r \in
      { IF k > Len(a)
        THEN IF carry = 0 THEN <<>> ELSE <<carry>>
        ELSE <<(a[k] * d + carry) % Base>>
             \o BnMulSmallFrom(a, d, k + 1, (a[k] * d + carry) \div Base)
        : a \in {A}, d \in {D}, k \in {K}, carry \in {Carry} } : TRUE

\* A * D for 0 <= D < Base
BnMulSmall(A, D) == BnNorm(BnMulSmallFrom(A, D, 1, 0))

RECURSIVE BnMulFrom(_, _, _)
\* A times the limbs from J on of B
BnMulFrom(A, B, J) ==
    CHOOSE r \in
      { IF j > Len(b) THEN <<>>
        ELSE BnAddFrom(BnMulSmall(a, b[j]), <<0>> \o BnMulFrom(a, b, j + 1), 1, 0)
        : a \in {A}, b \in {B}, j \in {J} } : TRUE

BnMul(A, B) == BnNorm(BnMulFrom(A, B, 1))

\* the quotient so far with limb T \div D put on top
BnDivSmallPut(Rest, T, D) ==
    CHOOSE r \in
      { [q |-> rest.q \o <<t \div d>>, r |-> rest.r]
        : rest \in {Rest}, t \in {T}, d \in {D} } : TRUE

RECURSIVE BnDivSmallFrom(_, _, _, _)
\* the limbs 1..K of A divided by D, with remainder Rem from the limbs above
BnDivSmallFrom(A, D, K, Rem) ==
    CHOOSE r \in
      { IF k = 0 THEN [q |-> <<>>, r |-> rem]
        ELSE BnDivSmallPut(BnDivSmallFrom(a, d, k - 1, (rem * Base + a[k]) % d),
                           rem * Base + a[k], d)
        : a \in {A}, d \in {D}, k \in {K}, rem \in {Rem} } : TRUE

\* quotient and remainder of A by D, 0 < D <= Base
BnDivSmall(A, D) ==
    CHOOSE r \in
      { [q |-> BnNorm(qr.q), r |-> qr.r]
        : qr \in {BnDivSmallFrom(A, D, Len(A), 0)} } : TRUE

\* A * 2^K
BnShl(A, K) ==
    CHOOSE r \in
      { IF part = <<>> THEN part ELSE [j \in 1..(k \div 15) |-> 0] \o part
        : part \in {BnMulSmall(A, 2 ^ (K % 15))}, k \in {K} } : TRUE

\* floor(A / 2^K)
BnShr(A, K) ==
    CHOOSE r \in
      { BnDivSmall(SubSeq(a, (k \div 15) + 1, Len(a)), 2 ^ (k % 15)).q
        : a \in {A}, k \in {K} } : TRUE

IntBitLen(N) ==
    CHOOSE r \in
      { CHOOSE b \in 0..15 : n < 2 ^ b /\ (b = 0 \/ n >= 2 ^ (b - 1))
        : n \in {N} } : TRUE

BnBitLen(A) ==
    CHOOSE r \in
      { IF a = <<>> THEN 0 ELSE 15 * (Len(a) - 1) + IntBitLen(a[Len(a)])
        : a \in {A} } : TRUE

BnIsOdd(a) == a # <<>> /\ a[1] % 2 = 1

FZero == [s |-> 1, m |-> <<>>, e |-> 0]

IsZero(x) == x.m = <<>>

\* the significand Q, of 53 bits or of 54 after a carry of the rounding
FRoundCarry(S, Q, E) ==
    CHOOSE r \in
      { IF BnBitLen(q) > MantBits
        THEN [s |-> s, m |-> BnShr(q, 1), e |-> e + 1]
        ELSE [s |-> s, m |-> q, e |-> e]
        : s \in {S}, q \in {Q}, e \in {E} } : TRUE

\* N cut to its top 53 bits Q = floor(N / 2^Sh), then up by one as the cut
\* bits (and Sticky) are above the half, or at the half with Q odd
FRoundCut(S, N, Sh, Q, E, Sticky) ==
    CHOOSE r \in
      { FRoundCarry(s,
                    IF c > 0 \/ (c = 0 /\ (sticky \/ BnIsOdd(q)))
                    THEN BnAdd(q, <<1>>) ELSE q,
                    e + sh)
        : s \in {S}, q \in {Q}, e \in {E}, sh \in {Sh}, sticky \in {Sticky},
          c \in {BnCmp(BnSub(N, BnShl(Q, Sh)), BnShl(<<1>>, Sh - 1))} } : TRUE

FRoundLen(S, N, Bits, E, Sticky) ==
    CHOOSE r \in
      { IF len = 0 THEN FZero
        ELSE IF len <= MantBits
        THEN [s |-> s, m |-> BnShl(n, MantBits - len), e |-> e - (MantBits - len)]
        ELSE FRoundCut(s, n, len - MantBits, BnShr(n, len - MantBits), e, sticky)
        : s \in {S}, n \in {N}, len \in {Bits}, e \in {E}, sticky \in {Sticky} } : TRUE

\* S * (N + f) * 2^E with 0 <= f < 1 and f > 0 iff Sticky, rounded to the
\* nearest 53-bit significand, ties to even
FRound(S, N, E, Sticky) ==
    CHOOSE r \in { FRoundLen(S, n, BnBitLen(n), E, Sticky) : n \in {N} } : TRUE

\* the number N, for an integer N
FromInt(N) ==
    CHOOSE r \in
      { IF n < 0 THEN FRound(-1, BnFromInt(-n), 0, FALSE)
        ELSE FRound(1, BnFromInt(n), 0, FALSE)
        : n \in {N} } : TRUE

FNeg(X) ==
    CHOOSE r \in { IF IsZero(x) THEN x ELSE [x EXCEPT !.s = -x.s] : x \in {X} } : TRUE

\* Sa * A * 2^E + Sb * B * 2^E
FAddAligned(Sa, A, Sb, B, E) ==
    CHOOSE r \in
      { IF sa = sb THEN FRound(sa, BnAdd(a, b), e, FALSE)
        ELSE IF c = 0 THEN FZero
        ELSE IF c > 0 THEN FRound(sa, BnSub(a, b), e, FALSE)
        ELSE FRound(sb, BnSub(b, a), e, FALSE)
        : sa \in {Sa}, a \in {A}, sb \in {Sb}, b \in {B}, e \in {E},
          c \in {BnCmp(A, B)} } : TRUE

\* X + Y
FAdd(X, Y) ==
    CHOOSE r \in
      { IF IsZero(x) THEN y
        ELSE IF IsZero(y) THEN x
        ELSE IF x.e < y.e
        THEN FAddAligned(x.s, x.m, y.s, BnShl(y.m, y.e - x.e), x.e)
        ELSE FAddAligned(x.s, BnShl(x.m, x.e - y.e), y.s, y.m, y.e)
        : x \in {X}, y \in {Y} } : TRUE

\* X - Y
FSub(X, Y) == FAdd(X, FNeg(Y))

\* X * Y
FMul(X, Y) ==
    CHOOSE r \in
      { IF IsZero(x) \/ IsZero(y) THEN FZero
        ELSE FRound(x.s * y.s, BnMul(x.m, y.m), x.e + y.e, FALSE)
        : x \in {X}, y \in {Y} } : TRUE

FDivIntRound(S, Qr, E) ==
    CHOOSE r \in
      { FRound(s, qr.q, e, qr.r # 0) : s \in {S}, qr \in {Qr}, e \in {E} } : TRUE

\* X / D for an integer 0 < D < 2^15
FDivInt(X, D) ==
    CHOOSE r \in
      { IF IsZero(x) THEN FZero
        ELSE FDivIntRound(x.s, BnDivSmall(BnShl(x.m, 30), d), x.e - 30)
        : x \in {X}, d \in {D} } : TRUE

\* the sign of X: -1, 0, 1
FSign(X) == CHOOSE r \in { IF IsZero(x) THEN 0 ELSE x.s : x \in {X} } : TRUE

\* -1, 0, 1 as X < Y, X = Y, X > Y
FCmp(X, Y) ==
    CHOOSE r \in
      { IF FSign(x) # FSign(y) THEN (IF FSign(x) < FSign(y) THEN -1 ELSE 1)
        ELSE IF FSign(x) = 0 THEN 0
        ELSE IF x.e # y.e THEN (IF x.e < y.e THEN -x.s ELSE x.s)
        ELSE x.s * BnCmp(x.m, y.m)
        : x \in {X}, y \in {Y} } : TRUE

FLeq(x, y) == FCmp(x, y) <= 0

IsPositive(X) == FSign(X) = 1

\* Math.floor(X) and Math.ceil(X) as integers, for 0 <= X < 2^30
FFloor(X) ==
    CHOOSE r \in
      { IF IsZero(x) THEN 0
        ELSE IF x.e >= 0 THEN BnToInt(BnShl(x.m, x.e))
        ELSE BnToInt(BnShr(x.m, -x.e))
        : x \in {X} } : TRUE

FCeil(X) ==
    CHOOSE r \in
      { IF IsZero(x) \/ x.e >= 0 THEN FFloor(x)
        ELSE IF BnShl(BnShr(x.m, -x.e), -x.e) = x.m THEN FFloor(x)
        ELSE FFloor(x) + 1
        : x \in {X} } : TRUE

\* one bit of the root: T = Res + Bit is subtracted from N if it fits
BnSqrtStep(N, Res, Bit, T, J) ==
    CHOOSE r \in
      { IF BnCmp(n, t) >= 0
        THEN [n |-> BnSub(n, t), res |-> BnAdd(BnShr(res, 1), bit), j |-> j - 1]
        ELSE [n |-> n, res |-> BnShr(res, 1), j |-> j - 1]
        : n \in {N}, res \in {Res}, bit \in {Bit}, t \in {T}, j \in {J} } : TRUE

RECURSIVE BnSqrtFrom(_)
\* floor of the square root of N < 4^(J+1), bit by bit from bit J down
BnSqrtFrom(St) ==
    CHOOSE r \in
      { IF st.j < 0 THEN [root |-> st.res, rem |-> st.n]
        ELSE BnSqrtFrom(BnSqrtStep(st.n, st.res, BnShl(<<1>>, 2 * st.j),
                                   BnAdd(st.res, BnShl(<<1>>, 2 * st.j)), st.j))
        : st \in {St} } : TRUE

FSqrtRound(Sq, E) ==
    CHOOSE r \in
      { FRound(1, sq.root, e, sq.rem # <<>>) : sq \in {Sq}, e \in {E} } : TRUE

\* Math.sqrt(X) for X >= 0
FSqrt(X) ==
    CHOOSE r \in
      { IF IsZero(x) THEN FZero
        ELSE IF x.e % 2 = 1
        THEN FSqrtRound(BnSqrtFrom([n |-> BnShl(x.m, MantBits + 4), res |-> <<>>,
                                    j |-> MantBits + 1]),
                        (x.e - (MantBits + 4)) \div 2)
        ELSE FSqrtRound(BnSqrtFrom([n |-> BnShl(x.m, MantBits + 3), res |-> <<>>,
                                    j |-> MantBits + 1]),
                        (x.e - (MantBits + 3)) \div 2)
        : x \in {X} } : TRUE

----------------------------------------------------------------------------
(* services/magic: MagicWalletService.  An object is the record of its     *)
(* private fields (an unset one is ""), a method is an operator from the   *)
(* object and what the network answers to the new object and the call's    *)
(* outcome: "resolved", or the message of the Error it rejects with.       *)

MagicNew ==
    [isInitialized |-> FALSE, jwtToken |-> "", apiKey |-> "", oidcProviderId |-> "",
     ethereumWalletAddress |-> "", solanaWalletAddress |-> ""]

\* what a fetch of the Magic API does: response.ok or not
FetchOutcomes == {"ok", "failed"}

\* !s for a string s
Falsy(str) == str = ""

\* this.jwtToken = ''; this.apiKey = ''; this.oidcProviderId = ''
MagicLoadCredentials(obj) ==
    [obj EXCEPT !.jwtToken = "", !.apiKey = "", !.oidcProviderId = ""]

MagicInitialize_ReadsEnv(obj, net) ==
    IF obj.isInitialized THEN [obj |-> obj, outcome |-> "resolved"]
    ELSE LET loaded == [obj EXCEPT !.jwtToken = "jwt", !.apiKey = "key",
                                   !.oidcProviderId = "oidc"]
         IN  IF Falsy(loaded.jwtToken) \/ Falsy(loaded.apiKey)
                    \/ Falsy(loaded.oidcProviderId)
             THEN [obj |-> loaded, outcome |-> "Missing required env vars"]
             ELSE IF net = "ok"
             THEN [obj |-> [loaded EXCEPT !.ethereumWalletAddress = "eth-address",
                                          !.solanaWalletAddress = "sol-address",
                                          !.isInitialized = TRUE],
                   outcome |-> "resolved"]
             ELSE [obj |-> loaded, outcome |-> "Initialization failed"]

\* async initialize()
MagicInitialize(obj, net) ==
    IF obj.isInitialized THEN [obj |-> obj, outcome |-> "resolved"]
    ELSE LET loaded == MagicLoadCredentials(obj)
         IN  IF Falsy(loaded.jwtToken) \/ Falsy(loaded.apiKey)
                    \/ Falsy(loaded.oidcProviderId)
             THEN [obj |-> loaded, outcome |-> "Missing required env vars"]
             ELSE IF net = "ok"
             THEN [obj |-> [loaded EXCEPT !.ethereumWalletAddress = "eth-address",
                                          !.solanaWalletAddress = "sol-address",
                                          !.isInitialized = TRUE],
                   outcome |-> "resolved"]
             ELSE [obj |-> loaded, outcome |-> "Initialization failed"]

\* async signMessageEthereum(message) / signMessageSolana(message): the
\* outcome; the object is left as it is
MagicSign(obj, c, net) ==
    IF ~obj.isInitialized THEN "Not initialized. Call initialize() first."
    ELSE IF c = "solana" /\ Falsy(obj.solanaWalletAddress)
    THEN "Solana wallet not configured"
    ELSE IF net = "ok" THEN "resolved"
    ELSE IF c = "ethereum" THEN "Ethereum signing failed"
    ELSE "Solana signing failed"

----------------------------------------------------------------------------
(* Wallet services.  A service is an input object: whether initialize()    *)
(* rejects, which optional signing methods it has, and how its signing     *)
(* calls behave ("free": every call may fail or return any latency and     *)
(* any signature; "steady": every call succeeds; "failing": every call     *)
(* rejects; "mixed": the calls of a chain run reject, return a valid       *)
(* signature and return an invalid one, in turn; "magic": the service is   *)
(* the MagicWalletService object).                                         *)

SignatureKinds == {"valid", "invalid", "malformed"}

WalletAddress(name, c) == <<name, c>>

\* The latency a service measures around call number n of a chain run:
\* every call of a run reports a different latency.
LatencyOf(service, n) == FromInt(service.latency + n)

\* What a signing call may return (ok) or reject with (~ok).  A returned
\* value is a well-formed ServiceResult and a rejection is an Error object
\* (it has a message), as the interface documents and every bundled service
\* does (throw new Error(...)).  The signature
\* and the error of call number n of a chain run carry n, so that a recorded
\* outcome can be traced to the call that produced it.
SignOutcomes(service, c, message, n) ==
    LET okSet(kinds) ==
            { [ok |-> TRUE,
               value |-> [signature |-> [id |-> n, kind |-> k, msg |-> message,
                                          signer |-> WalletAddress(service.name, c)],
                          apiLatencyMs |-> LatencyOf(service, n),
                          walletAddress |-> WalletAddress(service.name, c)]]
              : k \in kinds }
        failSet == { [ok |-> FALSE, error |-> [message |-> "signing failed", call |-> n]] }
    IN  CASE service.behaviour = "free"    -> okSet(SignatureKinds) \cup failSet
          [] service.behaviour = "steady"  -> okSet({"valid"})
          [] service.behaviour = "failing" -> failSet
          [] service.behaviour = "mixed"   ->
                IF n % 3 = 1 THEN failSet
                ELSE IF n % 3 = 2 THEN okSet({"valid"}) ELSE okSet({"invalid"})
          [] service.behaviour = "magic"   ->
                UNION { IF MagicSign(magic, c, net) = "resolved"
                        THEN okSet(SignatureKinds)
                        ELSE { [ok |-> FALSE,
                                error |-> [message |-> MagicSign(magic, c, net),
                                           call |-> n]] }
                        : net \in FetchOutcomes }

HasMethod(service, c) ==
    IF c = "ethereum" THEN service.hasEth ELSE service.hasSol

----------------------------------------------------------------------------
(* verification.ts                                                         *)

\* viem's verifyMessage / tweetnacl's detached.verify: "raised" for a
\* signature they cannot parse, else whether it is a signature of message
\* by address.
CryptoVerify(message, signature, address) ==
    IF signature.kind = "malformed" THEN "raised"
    ELSE IF signature.kind = "valid" /\ signature.msg = message
            /\ signature.signer = address
         THEN "true" ELSE "false"

verifyEthereumSignature_NoCatch(message, signature, address) ==
    LET out == CryptoVerify(message, signature, address)
    IN  IF out = "raised" THEN [rejected |-> TRUE, error |-> "verifier raised"]
        ELSE IF out = "true"
             THEN [rejected |-> FALSE, valid |-> TRUE]
             ELSE [rejected |-> FALSE, valid |-> FALSE,
                   error |-> "Signature verification failed"]

verifyEthereumSignature(message, signature, address) ==
    LET out == CryptoVerify(message, signature, address)
    IN  IF out = "raised"
        THEN [rejected |-> FALSE, valid |-> FALSE, error |-> "verifier raised"]
        ELSE IF out = "true"
             THEN [rejected |-> FALSE, valid |-> TRUE]
             ELSE [rejected |-> FALSE, valid |-> FALSE,
                   error |-> "Signature verification failed"]

verifySolanaSignature(message, signature, address) ==
    LET out == CryptoVerify(message, signature, address)
    IN  IF out = "raised"
        THEN [rejected |-> FALSE, valid |-> FALSE, error |-> "verifier raised"]
        ELSE IF out = "true"
             THEN [rejected |-> FALSE, valid |-> TRUE]
             ELSE [rejected |-> FALSE, valid |-> FALSE,
                   error |-> "Signature verification failed"]

----------------------------------------------------------------------------
(* runner.ts: helpers                                                      *)

getChainMethods(c) ==
    IF c = "ethereum"
    THEN [message |-> STANDARD_ETHEREUM_MESSAGE, verify |-> "ethereum"]
    ELSE [message |-> STANDARD_SOLANA_MESSAGE, verify |-> "solana"]

\* methods.verify(...)
MethodsVerify(methods, message, signature, address) ==
    IF methods.verify = "ethereum"
    THEN verifyEthereumSignature(message, signature, address)
    ELSE verifySolanaSignature(message, signature, address)

VerifyCallArgs_OtherMessage(methods, sr) ==
    <<STANDARD_ETHEREUM_MESSAGE, sr.signature, sr.walletAddress>>

\* const verifyResult = await methods.verify(methods.message,
\*     serviceResult.signature, serviceResult.walletAddress): the arguments.
VerifyCallArgs(methods, sr) ==
    <<methods.message, sr.signature, sr.walletAddress>>

warmupIterationsOf(cfg) ==
    IF "warmupIterations" \in DOMAIN cfg THEN cfg.warmupIterations ELSE DefaultWarmup

totalIterationsOf(cfg) == warmupIterationsOf(cfg) + cfg.iterations

isWarmup(cfg, idx) == idx < warmupIterationsOf(cfg)

\* the latency replaced by one the runner measures around the call
SuccessRecord_RunnerTimed(sr, verified) ==
    [success |-> TRUE, signature |-> sr.signature,
     apiLatencyMs |-> FAdd(sr.apiLatencyMs, FromInt(1)),
     walletAddress |-> sr.walletAddress, verified |-> verified]

\* results.push({success: true, ...}) when the iteration is not a warmup
SuccessRecord(sr, verified) ==
    [success |-> TRUE, signature |-> sr.signature, apiLatencyMs |-> sr.apiLatencyMs,
     walletAddress |-> sr.walletAddress, verified |-> verified]

PushSuccess_IncludesWarmup(cfg, idx, res, sr, verified) ==
    Append(res, SuccessRecord(sr, verified))

PushSuccess(cfg, idx, res, sr, verified) ==
    IF ~isWarmup(cfg, idx) THEN Append(res, SuccessRecord(sr, verified)) ELSE res

FailureRecord_VerifiedFalse(err) == [success |-> FALSE, error |-> err, verified |-> FALSE]

\* results.push({success: false, error}) when the iteration is not a warmup
FailureRecord(err) == [success |-> FALSE, error |-> err]

PushFailure_IncludesWarmup(cfg, idx, res, err) == Append(res, FailureRecord(err))

PushFailure_Dropped(cfg, idx, res, err) == res

\* results.unshift(failure): the newest failure goes to the front
PushFailure_Unshifts(cfg, idx, res, err) ==
    IF ~isWarmup(cfg, idx) THEN <<FailureRecord(err)>> \o res ELSE res

PushFailure(cfg, idx, res, err) ==
    IF ~isWarmup(cfg, idx) THEN Append(res, FailureRecord(err)) ELSE res

\* if (config.delayMs && i < totalIterations - 1): an absent delayMs is
\* undefined, which is falsy as 0 is
DelayDue(cfg, idx) ==
    /\ "delayMs" \in DOMAIN cfg
    /\ cfg.delayMs # 0
    /\ idx < totalIterationsOf(cfg) - 1

\* results.filter(r => r.success).length
successCountOf(res) == Cardinality({k \in DOMAIN res : res[k].success})

\* results.filter(r => !r.success).length
errorCountOf(res) == Cardinality({k \in DOMAIN res : ~res[k].success})

\* the ChainBenchmarkResult returned by runChainBenchmark
ChainBenchmarkResult(c, name, res) ==
    [chain |-> c, serviceName |-> name, results |-> res,
     successCount |-> successCountOf(res),
     errorCount |-> errorCountOf(res)]

\* statistics.ts: const iterations = successCount + errorCount
computeStatsIterations(successCount, errorCount) == successCount + errorCount

countVerifications_Falsy(res) ==
    [verifiedCount |->
        Cardinality({k \in DOMAIN res :
                        "verified" \in DOMAIN res[k] /\ res[k].verified = TRUE}),
     verificationFailures |->
        Cardinality({k \in DOMAIN res :
                        ~("verified" \in DOMAIN res[k] /\ res[k].verified = TRUE)})]

\* statistics.ts: countVerifications
countVerifications(res) ==
    [verifiedCount |->
        Cardinality({k \in DOMAIN res :
                        "verified" \in DOMAIN res[k] /\ res[k].verified = TRUE}),
     verificationFailures |->
        Cardinality({k \in DOMAIN res :
                        "verified" \in DOMAIN res[k] /\ res[k].verified = FALSE})]

WantsEthereum(cfg) == cfg.chain = "ethereum" \/ cfg.chain = "both"
WantsSolana(cfg) == cfg.chain = "solana" \/ cfg.chain = "both"

Service == services[svcIdx]
NoIteration == [iter |-> -1, sign |-> "none", verify |-> "none"]

----------------------------------------------------------------------------
(* statistics.ts.  An absent value (undefined) is <<>> and a present one   *)
(* is <<v>>; an optional property of an object is a field the record has   *)
(* or lacks.                                                               *)

extractLatencies_VerifiedOnly(res) ==
    LET kept == SelectSeq(res, LAMBDA r : r.success /\ "apiLatencyMs" \in DOMAIN r
                                             /\ r.verified = TRUE)
    IN  [k \in DOMAIN kept |-> kept[k].apiLatencyMs]

\* results.filter(r => r.success && r.apiLatencyMs !== undefined)
\*        .map(r => r.apiLatencyMs!)
extractLatencies(res) ==
    LET kept == SelectSeq(res, LAMBDA r : r.success /\ "apiLatencyMs" \in DOMAIN r)
    IN  [k \in DOMAIN kept |-> kept[k].apiLatencyMs]

RECURSIVE InsertSorted(_, _)
InsertSorted(sorted, x) ==
    IF sorted = <<>> THEN <<x>>
    ELSE IF IsPositive(FSub(sorted[Len(sorted)], x))
    THEN Append(InsertSorted(SubSeq(sorted, 1, Len(sorted) - 1), x), sorted[Len(sorted)])
    ELSE Append(sorted, x)

RECURSIVE SortAscending(_)
\* [...latencies].sort((a, b) => a - b): a stable sort, an element moves
\* before those the comparator puts after it (a - b > 0)
SortAscending(seq) ==
    IF seq = <<>> THEN <<>>
    ELSE InsertSorted(SortAscending(SubSeq(seq, 1, Len(seq) - 1)), seq[Len(seq)])

getPercentile_NearestRank(sortedArray, percentile) ==
    IF Len(sortedArray) = 0 THEN FZero
    ELSE LET index == FMul(FDivInt(FromInt(percentile), 100),
                           FromInt(Len(sortedArray) - 1))
         IN  sortedArray[FCeil(index) + 1]

getPercentile(sortedArray, percentile) ==
    IF Len(sortedArray) = 0 THEN FZero
    ELSE LET index == FMul(FDivInt(FromInt(percentile), 100),
                           FromInt(Len(sortedArray) - 1))
             lower == FFloor(index)
             upper == FCeil(index)
             weight == FSub(index, FromInt(lower))
         IN  IF lower = upper THEN sortedArray[lower + 1]
             ELSE FAdd(FMul(sortedArray[lower + 1], FSub(FromInt(1), weight)),
                       FMul(sortedArray[upper + 1], weight))

RECURSIVE SumFrom(_, _, _)
\* latencies.reduce((sum, lat) => sum + lat, 0), from element k on
SumFrom(latencies, k, sum) ==
    IF k > Len(latencies) THEN sum
    ELSE SumFrom(latencies, k + 1, FAdd(sum, latencies[k]))

RECURSIVE SquaredDeviationsFrom(_, _, _, _)
\* latencies.reduce((sum, lat) => sum + Math.pow(lat - mean, 2), 0), from
\* element k on; Math.pow(x, 2) is the rounded square of x
SquaredDeviationsFrom(latencies, mean, k, sum) ==
    IF k > Len(latencies) THEN sum
    ELSE LET d == FSub(latencies[k], mean)
         IN  SquaredDeviationsFrom(latencies, mean, k + 1, FAdd(sum, FMul(d, d)))

varianceOf_Sample(latencies, mean) ==
    FDivInt(SquaredDeviationsFrom(latencies, mean, 1, FZero),
            IF Len(latencies) > 1 THEN Len(latencies) - 1 ELSE 1)

\* const variance = latencies.reduce(...) / latencies.length
varianceOf(latencies, mean) ==
    FDivInt(SquaredDeviationsFrom(latencies, mean, 1, FZero), Len(latencies))

successRateOf_Fraction(successCount, iterations) ==
    IF iterations > 0 THEN FDivInt(FromInt(successCount), iterations) ELSE FZero

\* const successRate = iterations > 0 ? (successCount / iterations) * 100 : 0
successRateOf(successCount, iterations) ==
    IF iterations > 0
    THEN FMul(FDivInt(FromInt(successCount), iterations), FromInt(100))
    ELSE FZero

computeStats_EmptyDropsCounts(latencies, successCount, errorCount, verifiedCount, verificationFailures) ==
    [iterations |-> 0, mean |-> FZero, median |-> FZero,
     min |-> FZero, max |-> FZero, p95 |-> FZero, p99 |-> FZero,
     standardDeviation |-> FZero, variance |-> FZero, total |-> FZero,
     successCount |-> 0, errorCount |-> 0,
     successRate |-> FZero, latencies |-> <<>>,
     verifiedCount |-> verifiedCount,
     verificationFailures |-> verificationFailures]

computeStats_ReturnsUnsorted(latencies, successCount, errorCount, verifiedCount, verificationFailures) ==
    LET iterations == computeStatsIterations(successCount, errorCount)
        sortedLatencies == SortAscending(latencies)
        total == SumFrom(latencies, 1, FZero)
        mean == FDivInt(total, Len(latencies))
        variance == varianceOf(latencies, mean)
    IN  IF Len(latencies) = 0
        THEN [iterations |-> iterations, mean |-> FZero, median |-> FZero,
              min |-> FZero, max |-> FZero, p95 |-> FZero, p99 |-> FZero,
              standardDeviation |-> FZero, variance |-> FZero, total |-> FZero,
              successCount |-> successCount, errorCount |-> errorCount,
              successRate |-> FZero, latencies |-> <<>>,
              verifiedCount |-> verifiedCount,
              verificationFailures |-> verificationFailures]
        ELSE [iterations |-> iterations, mean |-> mean,
              median |-> getPercentile(sortedLatencies, 50),
              min |-> sortedLatencies[1],
              max |-> sortedLatencies[Len(sortedLatencies)],
              p95 |-> getPercentile(sortedLatencies, 95),
              p99 |-> getPercentile(sortedLatencies, 99),
              standardDeviation |-> FSqrt(variance), variance |-> variance,
              total |-> total,
              successCount |-> successCount, errorCount |-> errorCount,
              successRate |-> successRateOf(successCount, iterations),
              latencies |-> latencies,
              verifiedCount |-> verifiedCount,
              verificationFailures |-> verificationFailures]

computeStats(latencies, successCount, errorCount, verifiedCount, verificationFailures) ==
    LET iterations == computeStatsIterations(successCount, errorCount)
        sortedLatencies == SortAscending(latencies)
        total == SumFrom(latencies, 1, FZero)
        mean == FDivInt(total, Len(latencies))
        variance == varianceOf(latencies, mean)
    IN  IF Len(latencies) = 0
        THEN [iterations |-> iterations, mean |-> FZero, median |-> FZero,
              min |-> FZero, max |-> FZero, p95 |-> FZero, p99 |-> FZero,
              standardDeviation |-> FZero, variance |-> FZero, total |-> FZero,
              successCount |-> successCount, errorCount |-> errorCount,
              successRate |-> FZero, latencies |-> <<>>,
              verifiedCount |-> verifiedCount,
              verificationFailures |-> verificationFailures]
        ELSE [iterations |-> iterations, mean |-> mean,
              median |-> getPercentile(sortedLatencies, 50),
              min |-> sortedLatencies[1],
              max |-> sortedLatencies[Len(sortedLatencies)],
              p95 |-> getPercentile(sortedLatencies, 95),
              p99 |-> getPercentile(sortedLatencies, 99),
              standardDeviation |-> FSqrt(variance), variance |-> variance,
              total |-> total,
              successCount |-> successCount, errorCount |-> errorCount,
              successRate |-> successRateOf(successCount, iterations),
              latencies |-> sortedLatencies,
              verifiedCount |-> verifiedCount,
              verificationFailures |-> verificationFailures]

calculateChainStats(cr) ==
    LET latencies == extractLatencies(cr.results)
        counts == countVerifications(cr.results)
    IN  [chain |-> cr.chain, serviceName |-> cr.serviceName]
        @@ computeStats(latencies, cr.successCount, cr.errorCount,
                        counts.verifiedCount, counts.verificationFailures)

calculateConsolidatedStats_EthereumErrorsOnly(ethereum, solana, serviceName) ==
    LET allLatencies == extractLatencies(ethereum.results)
                        \o extractLatencies(solana.results)
        successCount == ethereum.successCount + solana.successCount
        errorCount == ethereum.errorCount
        counts == countVerifications(ethereum.results \o solana.results)
    IN  [chain |-> "ethereum", serviceName |-> serviceName]
        @@ computeStats(allLatencies, successCount, errorCount,
                        counts.verifiedCount, counts.verificationFailures)

calculateConsolidatedStats(ethereum, solana, serviceName) ==
    LET allLatencies == extractLatencies(ethereum.results)
                        \o extractLatencies(solana.results)
        successCount == ethereum.successCount + solana.successCount
        errorCount == ethereum.errorCount + solana.errorCount
        counts == countVerifications(ethereum.results \o solana.results)
    IN  [chain |-> "ethereum", serviceName |-> serviceName]
        @@ computeStats(allLatencies, successCount, errorCount,
                        counts.verifiedCount, counts.verificationFailures)

calculateServiceStats(br) ==
    LET hasE == "ethereum" \in DOMAIN br
        hasS == "solana" \in DOMAIN br
    IN  IF hasE /\ hasS
        THEN [serviceName |-> br.serviceName,
              ethereum |-> calculateChainStats(br.ethereum),
              solana |-> calculateChainStats(br.solana),
              consolidated |-> calculateConsolidatedStats(br.ethereum, br.solana,
                                                          br.serviceName)]
        ELSE IF hasE
        THEN [serviceName |-> br.serviceName,
              ethereum |-> calculateChainStats(br.ethereum)]
        ELSE IF hasS
        THEN [serviceName |-> br.serviceName,
              solana |-> calculateChainStats(br.solana)]
        ELSE [serviceName |-> br.serviceName]

\* results.map(calculateServiceStats)
calculateAllStats(brs) == [k \in DOMAIN brs |-> calculateServiceStats(brs[k])]

getChainStats_IgnoresChain(service, c) ==
    IF "ethereum" \in DOMAIN service THEN <<service.ethereum>> ELSE <<>>

\* chain === 'ethereum' ? service.ethereum : service.solana
getChainStats(service, c) ==
    IF c \in DOMAIN service THEN <<service[c]>> ELSE <<>>

RECURSIVE InsertByMedian_BeforeEqual(_, _)
InsertByMedian_BeforeEqual(sorted, x) ==
    IF sorted = <<>> THEN <<x>>
    ELSE IF FCmp(sorted[Len(sorted)].median, x.median) >= 0
    THEN Append(InsertByMedian_BeforeEqual(SubSeq(sorted, 1, Len(sorted) - 1), x),
                sorted[Len(sorted)])
    ELSE Append(sorted, x)

RECURSIVE InsertByMedian(_, _)
InsertByMedian(sorted, x) ==
    IF sorted = <<>> THEN <<x>>
    ELSE IF IsPositive(FSub(sorted[Len(sorted)].median, x.median))
    THEN Append(InsertByMedian(SubSeq(sorted, 1, Len(sorted) - 1), x),
                sorted[Len(sorted)])
    ELSE Append(sorted, x)

RECURSIVE SortByMedian(_)
\* rankings.sort((a, b) => a.median - b.median): a stable sort
SortByMedian(seq) ==
    IF seq = <<>> THEN <<>>
    ELSE InsertByMedian(SortByMedian(SubSeq(seq, 1, Len(seq) - 1)), seq[Len(seq)])

rankServicesByChain_KeepsZeroRate(stats, c) ==
    LET present == SelectSeq(stats, LAMBDA s : getChainStats(s, c) # <<>>)
        chainStats == [k \in DOMAIN present |-> getChainStats(present[k], c)[1]]
        ranked == SortByMedian([k \in DOMAIN chainStats |->
                     [serviceName |-> chainStats[k].serviceName, chain |-> c,
                      median |-> chainStats[k].median, mean |-> chainStats[k].mean,
                      p95 |-> chainStats[k].p95,
                      successRate |-> chainStats[k].successRate, rank |-> 0]])
    IN  [k \in DOMAIN ranked |-> [ranked[k] EXCEPT !.rank = k]]

rankServicesByChain(stats, c) ==
    LET present == SelectSeq(stats, LAMBDA s : getChainStats(s, c) # <<>>)
        chainStats == SelectSeq([k \in DOMAIN present |-> getChainStats(present[k], c)[1]],
                                LAMBDA s : FCmp(s.successRate, FZero) > 0)
        ranked == SortByMedian([k \in DOMAIN chainStats |->
                     [serviceName |-> chainStats[k].serviceName, chain |-> c,
                      median |-> chainStats[k].median, mean |-> chainStats[k].mean,
                      p95 |-> chainStats[k].p95,
                      successRate |-> chainStats[k].successRate, rank |-> 0]])
    IN  [k \in DOMAIN ranked |-> [ranked[k] EXCEPT !.rank = k]]

----------------------------------------------------------------------------
(* Inputs                                                                  *)

Chains == {"ethereum", "solana", "both"}

Configs ==
    { [chain |-> c, iterations |-> n, warmupIterations |-> w, delayMs |-> d]
        : c \in Chains, n \in 0..MaxIter, w \in 0..MaxWarmup, d \in {0, DelayMs} }
    \cup
    { [chain |-> c, iterations |-> n, delayMs |-> d]
        : c \in Chains, n \in 0..MaxIter, d \in {0, DelayMs} }
    \cup
    { [chain |-> c, iterations |-> n, warmupIterations |-> w]
        : c \in Chains, n \in 0..MaxIter, w \in 0..MaxWarmup }
    \cup
    { [chain |-> c, iterations |-> n] : c \in Chains, n \in 0..MaxIter }

\* one service whose signing calls may do anything
FreeServices ==
    { [name |-> "free", initOk |-> io, hasEth |-> he, hasSol |-> hs,
       behaviour |-> "free", latency |-> 100]
        : io \in BOOLEAN, he \in BOOLEAN, hs \in BOOLEAN }

\* a batch of scripted services
Catalogue ==
    { [name |-> "A", initOk |-> TRUE, hasEth |-> TRUE, hasSol |-> TRUE,
       behaviour |-> "steady", latency |-> 150],
      [name |-> "B", initOk |-> FALSE, hasEth |-> TRUE, hasSol |-> TRUE,
       behaviour |-> "steady", latency |-> 120],
      [name |-> "C", initOk |-> TRUE, hasEth |-> TRUE, hasSol |-> FALSE,
       behaviour |-> "failing", latency |-> 180] }

\* a Map has one entry per key: the batches are the orderings of the
\* non-empty subsets of the catalogue
Batches ==
    { s \in UNION { [1..n -> Catalogue] : n \in 1..Cardinality(Catalogue) } :
        \A a, b \in DOMAIN s : a # b => s[a].name # s[b].name }

\* the services of a run whose results are reported
ReportCatalogue ==
    { [name |-> "A", initOk |-> TRUE, hasEth |-> TRUE, hasSol |-> TRUE,
       behaviour |-> "steady", latency |-> 150],
      [name |-> "B", initOk |-> FALSE, hasEth |-> TRUE, hasSol |-> TRUE,
       behaviour |-> "steady", latency |-> 120],
      [name |-> "D", initOk |-> TRUE, hasEth |-> TRUE, hasSol |-> FALSE,
       behaviour |-> "mixed", latency |-> 90] }

ReportBatches ==
    { s \in UNION { [1..n -> ReportCatalogue] : n \in 1..Cardinality(ReportCatalogue) } :
        \A a, b \in DOMAIN s : a # b => s[a].name # s[b].name }

ReportConfigs ==
    { [chain |-> c, iterations |-> n, warmupIterations |-> w, delayMs |-> DelayMs]
        : c \in Chains, n \in 0..MaxIter, w \in 0..MaxWarmup }

\* the MagicWalletService as a service of a batch
MagicService ==
    [name |-> "magic", hasEth |-> TRUE, hasSol |-> TRUE, behaviour |-> "magic",
     latency |-> 100]

MagicCatalogue == {MagicService} \cup {s \in ReportCatalogue : s.initOk}

\* the batches that contain the MagicWalletService
MagicBatches ==
    { s \in UNION { [1..n -> MagicCatalogue] : n \in 1..Cardinality(MagicCatalogue) } :
        /\ \A a, b \in DOMAIN s : a # b => s[a].name # s[b].name
        /\ \E a \in DOMAIN s : s[a] = MagicService }

\* the locals of the runner before it has run, and no report yet
InitLocals ==
    /\ svcIdx = 1
    /\ result = [serviceName |-> ""]
    /\ chain = "ethereum"
    /\ i = 0
    /\ results = <<>>
    /\ serviceResult = <<>>
    /\ signCalls = 0
    /\ signFails = 0
    /\ failedIters = {}
    /\ verifyCalls = 0
    /\ gap = 0
    /\ last = NoIteration
    /\ signArg = ""
    /\ verifyArgs = <<>>
    /\ svcLog = <<>>
    /\ inFlight = {}
    /\ magic = MagicNew
    /\ magicLog = <<>>
    /\ allStats = <<>>
    /\ rankings = <<>>

InitWith(svcs, cfg) ==
    /\ services = svcs
    /\ config = cfg
    /\ pc = "rb_loop"
    /\ batchResults = <<>>
    /\ InitLocals

Init == \E s \in FreeServices, cfg \in Configs : InitWith(<<s>>, cfg)

InitBatch == \E svcs \in Batches, cfg \in Configs : InitWith(svcs, cfg)

InitReport == \E svcs \in ReportBatches, cfg \in ReportConfigs : InitWith(svcs, cfg)

InitMagic == \E svcs \in MagicBatches, cfg \in ReportConfigs : InitWith(svcs, cfg)

\* The inputs of the statistics functions: the BenchmarkResult list of one
\* service benchmarked on Ethereum, whose measured iterations failed or
\* succeeded with any of a few latencies.
LatencyValues ==
    { FromInt(100), FromInt(110), FromInt(130), FDivInt(FromInt(13), 10) }

SampleRecords ==
    { [success |-> TRUE, signature |-> "sig", apiLatencyMs |-> v,
       walletAddress |-> "addr", verified |-> TRUE] : v \in LatencyValues }
    \cup { FailureRecord([message |-> "signing failed", call |-> 0]) }

ExampleLatencies ==
    <<FromInt(100), FromInt(120), FromInt(110), FromInt(130), FromInt(105)>>

ExampleSamples ==
    [k \in DOMAIN ExampleLatencies |->
        [success |-> TRUE, signature |-> "sig", apiLatencyMs |-> ExampleLatencies[k],
         walletAddress |-> "addr", verified |-> TRUE]]

StatsSamples ==
    UNION { [1..n -> SampleRecords] : n \in 0..MaxSamples } \cup {ExampleSamples}

\* calculateAllStats is handed a BenchmarkResult list: no runner state
InitStats ==
    \E samples \in StatsSamples :
        /\ services = <<>>
        /\ config = [chain |-> "ethereum", iterations |-> Len(samples), delayMs |-> 0]
        /\ pc = "returned"
        /\ batchResults =
              << [serviceName |-> "S",
                  ethereum |-> ChainBenchmarkResult("ethereum", "S", samples)] >>
        /\ InitLocals

\* The inputs of the ranking: the BenchmarkResult list runBenchmarks returns
\* for a batch of services and two iterations.  A service has an Ethereum
\* result of two records when Ethereum was asked for, and a Solana result of
\* two records when Solana was asked for and it has signMessageSolana.
RankConfigs == { [chain |-> c, iterations |-> 2, delayMs |-> 0] : c \in Chains }

SampleSuccess(latency, verified) ==
    [success |-> TRUE, signature |-> "sig", apiLatencyMs |-> FromInt(latency),
     walletAddress |-> "addr", verified |-> verified]

SampleFailure == FailureRecord([message |-> "signing failed", call |-> 0])

\* what the two chain runs of a service recorded (<<>>: no Solana run)
RankShapes ==
    { [ethereum |-> <<SampleSuccess(100, TRUE), SampleSuccess(100, TRUE)>>,
       solana |-> <<>>],
      [ethereum |-> <<SampleSuccess(100, TRUE), SampleFailure>>,
       solana |-> <<>>],
      [ethereum |-> <<SampleFailure, SampleFailure>>,
       solana |-> <<>>],
      [ethereum |-> <<SampleSuccess(130, TRUE), SampleSuccess(100, FALSE)>>,
       solana |-> <<SampleFailure, SampleSuccess(110, FALSE)>>],
      [ethereum |-> <<SampleFailure, SampleFailure>>,
       solana |-> <<SampleSuccess(100, TRUE), SampleSuccess(100, TRUE)>>],
      [ethereum |-> <<SampleSuccess(130, TRUE), SampleSuccess(130, TRUE)>>,
       solana |-> <<SampleFailure, SampleFailure>>] }

ServiceNames == <<"S1", "S2", "S3", "S4", "S5">>

\* the BenchmarkResult of the k-th service of the Map
RankResult(k, shape, cfg) ==
    LET name == ServiceNames[k]
        hasE == WantsEthereum(cfg)
        hasS == WantsSolana(cfg) /\ shape.solana # <<>>
    IN  IF hasE /\ hasS
        THEN [serviceName |-> name,
              ethereum |-> ChainBenchmarkResult("ethereum", name, shape.ethereum),
              solana |-> ChainBenchmarkResult("solana", name, shape.solana)]
        ELSE IF hasE
        THEN [serviceName |-> name,
              ethereum |-> ChainBenchmarkResult("ethereum", name, shape.ethereum)]
        ELSE IF hasS
        THEN [serviceName |-> name,
              solana |-> ChainBenchmarkResult("solana", name, shape.solana)]
        ELSE [serviceName |-> name]

RankInputs(cfg) ==
    UNION { { [k \in 1..n |-> RankResult(k, shapes[k], cfg)]
              : shapes \in [1..n -> RankShapes] }
            : n \in 1..MaxServices }

InitRank ==
    \E cfg \in RankConfigs :
        \E brs \in RankInputs(cfg) :
            /\ services = <<>>
            /\ config = cfg
            /\ pc = "returned"
            /\ batchResults = brs
            /\ InitLocals

----------------------------------------------------------------------------
(* History bookkeeping                                                     *)

LogUpdate(field, value) ==
    [svcLog EXCEPT ![Len(svcLog)] = [@ EXCEPT ![field] = value]]

LogBump(field) ==
    [svcLog EXCEPT ![Len(svcLog)] = [@ EXCEPT ![field] = @ + 1]]

chainVars == <<chain, i, results, serviceResult, signCalls, signFails, failedIters,
               verifyCalls, gap, last, signArg, verifyArgs>>

reportVars == <<allStats, rankings>>

magicVars == <<magic, magicLog>>

\* a call of a capability of the current service, or a delay, made in
\* iteration idx (-1: outside the iterations)
Call(op, idx) == [op |-> op, service |-> Service.name, iter |-> idx]

----------------------------------------------------------------------------
(* runBenchmarks                                                           *)

\* for (const [serviceName, service] of services): the next entry;
\* runBenchmark is entered and awaits service.initialize()
BatchNext ==
    /\ pc = "rb_loop"
    /\ svcIdx <= Len(services)
    /\ pc' = "initialize"
    /\ svcLog' = Append(svcLog, [name |-> Service.name, initCalls |-> 1,
                                 signCalls |-> 0, verifyCalls |-> 0,
                                 outcome |-> "running"])
    /\ inFlight' = inFlight \cup {Call("initialize", -1)}
    /\ UNCHANGED <<reportVars, magicVars, services, config, svcIdx, batchResults, result, chainVars>>

\* the iterator is exhausted: return results
BatchReturn ==
    /\ pc = "rb_loop"
    /\ svcIdx > Len(services)
    /\ pc' = "returned"
    /\ UNCHANGED <<reportVars, magicVars, inFlight, services, config, svcIdx, batchResults, result, chainVars, svcLog>>

BatchCatch_Rethrows ==
    /\ pc = "rb_catch"
    /\ pc' = "raised"
    /\ UNCHANGED <<reportVars, magicVars, inFlight, services, config, svcIdx, batchResults, result, chainVars, svcLog>>

\* catch (error) { console.log(...skipping) }: on to the next entry
BatchCatch ==
    /\ pc = "rb_catch"
    /\ svcIdx' = svcIdx + 1
    /\ pc' = "rb_loop"
    /\ UNCHANGED <<reportVars, magicVars, inFlight, services, config, batchResults, result, chainVars, svcLog>>

ServiceReturn_Unshifts ==
    /\ pc = "service_return"
    /\ batchResults' = <<result>> \o batchResults
    /\ svcIdx' = svcIdx + 1
    /\ pc' = "rb_loop"
    /\ svcLog' = LogUpdate("outcome", "returned")
    /\ UNCHANGED <<reportVars, magicVars, inFlight, services, config, result, chainVars>>

\* const result = await runBenchmark(...); results.push(result)
ServiceReturn ==
    /\ pc = "service_return"
    /\ batchResults' = Append(batchResults, result)
    /\ svcIdx' = svcIdx + 1
    /\ pc' = "rb_loop"
    /\ svcLog' = LogUpdate("outcome", "returned")
    /\ UNCHANGED <<reportVars, magicVars, inFlight, services, config, result, chainVars>>

----------------------------------------------------------------------------
(* runBenchmark                                                            *)

\* what service.initialize() may do: the object it leaves and its outcome
InitializeOutcomes(service) ==
    IF service.behaviour = "magic"
    THEN { MagicInitialize(magic, net) : net \in FetchOutcomes }
    ELSE { [obj |-> magic,
            outcome |-> IF service.initOk THEN "resolved" ELSE "initialize failed"] }

\* the call is logged when it was made on the MagicWalletService object
InitializeSettles(out) ==
    /\ magic' = out.obj
    /\ magicLog' = IF Service.behaviour = "magic"
                   THEN Append(magicLog, [op |-> "initialize", by |-> "runner",
                                          outcome |-> out.outcome])
                   ELSE magicLog

\* await service.initialize() resolves
InitializeOk ==
    /\ pc = "initialize"
    /\ \E out \in InitializeOutcomes(Service) :
          out.outcome = "resolved" /\ InitializeSettles(out)
    /\ result' = [serviceName |-> Service.name]
    /\ pc' = "eth_check"
    /\ inFlight' = inFlight \ {Call("initialize", -1)}
    /\ UNCHANGED <<reportVars, services, config, svcIdx, batchResults, chainVars, svcLog>>

InitializeFail_Swallowed ==
    /\ pc = "initialize"
    /\ \E out \in InitializeOutcomes(Service) :
          out.outcome # "resolved" /\ InitializeSettles(out)
    /\ result' = [serviceName |-> Service.name]
    /\ pc' = "eth_check"
    /\ inFlight' = inFlight \ {Call("initialize", -1)}
    /\ UNCHANGED <<reportVars, services, config, svcIdx, batchResults, chainVars, svcLog>>

\* await service.initialize() rejects: catch, log, throw error
InitializeFail ==
    /\ pc = "initialize"
    /\ \E out \in InitializeOutcomes(Service) :
          out.outcome # "resolved" /\ InitializeSettles(out)
    /\ pc' = "rb_catch"
    /\ svcLog' = LogUpdate("outcome", "raised")
    /\ inFlight' = inFlight \ {Call("initialize", -1)}
    /\ UNCHANGED <<reportVars, services, config, svcIdx, batchResults, result, chainVars>>

\* one results array shared by the chain runs of a service
StartChain_KeepsResults(c) ==
    /\ chain' = c
    /\ i' = 0
    /\ results' = results
    /\ serviceResult' = <<>>
    /\ signCalls' = 0
    /\ signFails' = 0
    /\ failedIters' = {}
    /\ verifyCalls' = 0
    /\ gap' = 0
    /\ last' = NoIteration
    /\ signArg' = ""
    /\ verifyArgs' = <<>>
    /\ pc' = "loop"

\* runChainBenchmark is entered: its locals are fresh
StartChain(c) ==
    /\ chain' = c
    /\ i' = 0
    /\ results' = <<>>
    /\ serviceResult' = <<>>
    /\ signCalls' = 0
    /\ signFails' = 0
    /\ failedIters' = {}
    /\ verifyCalls' = 0
    /\ gap' = 0
    /\ last' = NoIteration
    /\ signArg' = ""
    /\ verifyArgs' = <<>>
    /\ pc' = "loop"

EthCheck_ChecksMethod ==
    /\ pc = "eth_check"
    /\ IF WantsEthereum(config) /\ Service.hasEth
       THEN StartChain("ethereum")
       ELSE pc' = "sol_check" /\ UNCHANGED chainVars
    /\ UNCHANGED <<reportVars, magicVars, inFlight, services, config, svcIdx, batchResults, result, svcLog>>

\* if (config.chain === 'ethereum' || config.chain === 'both')
EthCheck ==
    /\ pc = "eth_check"
    /\ IF WantsEthereum(config)
       THEN StartChain("ethereum")
       ELSE pc' = "sol_check" /\ UNCHANGED chainVars
    /\ UNCHANGED <<reportVars, magicVars, inFlight, services, config, svcIdx, batchResults, result, svcLog>>

SolCheck_NoTypeofCheck ==
    /\ pc = "sol_check"
    /\ IF WantsSolana(config)
       THEN StartChain("solana")
       ELSE pc' = "service_return" /\ UNCHANGED chainVars
    /\ UNCHANGED <<reportVars, magicVars, inFlight, services, config, svcIdx, batchResults, result, svcLog>>

\* service.initialize() called again before the Solana run
SolCheck_Reinitializes ==
    /\ pc = "sol_check"
    /\ IF WantsSolana(config) /\ Service.hasSol
       THEN StartChain("solana") /\ svcLog' = LogBump("initCalls")
       ELSE pc' = "service_return" /\ UNCHANGED <<chainVars, svcLog>>
    /\ UNCHANGED <<reportVars, magicVars, inFlight, services, config, svcIdx, batchResults, result>>

\* if (config.chain === 'solana' || config.chain === 'both'), and the
\* typeof service.signMessageSolana check
SolCheck ==
    /\ pc = "sol_check"
    /\ IF WantsSolana(config) /\ Service.hasSol
       THEN StartChain("solana")
       ELSE pc' = "service_return" /\ UNCHANGED chainVars
    /\ UNCHANGED <<reportVars, magicVars, inFlight, services, config, svcIdx, batchResults, result, svcLog>>

\* result.ethereum = await runChainBenchmark(...) / result.solana = ...
ChainReturn ==
    /\ pc = "chain_return"
    /\ LET cr == ChainBenchmarkResult(chain, Service.name, results)
       IN  result' =
             IF chain = "ethereum"
             THEN [serviceName |-> result.serviceName, ethereum |-> cr]
             ELSE IF "ethereum" \in DOMAIN result
                  THEN [serviceName |-> result.serviceName,
                        ethereum |-> result.ethereum, solana |-> cr]
                  ELSE [serviceName |-> result.serviceName, solana |-> cr]
    /\ pc' = IF chain = "ethereum" THEN "sol_check" ELSE "service_return"
    /\ UNCHANGED <<reportVars, magicVars, inFlight, services, config, svcIdx, batchResults, chainVars, svcLog>>

----------------------------------------------------------------------------
(* runChainBenchmark                                                       *)

\* the TypeError of calling an absent method in iteration idx (0-based)
TypeErrorNotAFunction(idx) == [message |-> "is not a function", call |-> idx + 1]

\* for (let i = 0; i < totalIterations; i++) { try { await methods.sign(...)
\* A missing signing method throws at the call and lands in the catch.
LoopHead ==
    /\ pc = "loop"
    /\ IF i < totalIterationsOf(config)
       THEN IF HasMethod(Service, chain)
            THEN /\ pc' = "sign"
                 /\ signCalls' = signCalls + 1
                 /\ signArg' = getChainMethods(chain).message
                 /\ svcLog' = LogBump("signCalls")
                 /\ UNCHANGED <<i, results, gap, last, failedIters>>
            ELSE /\ results' = PushFailure(config, i, results, TypeErrorNotAFunction(i))
                 /\ i' = i + 1
                 /\ pc' = "loop"
                 /\ gap' = 0
                 /\ last' = [iter |-> i, sign |-> "threw", verify |-> "none"]
                 /\ failedIters' = failedIters \cup {i}
                 /\ UNCHANGED <<signCalls, signArg, svcLog>>
       ELSE /\ pc' = "chain_return"
            /\ UNCHANGED <<i, results, gap, last, signCalls, signArg, svcLog,
                           failedIters>>
    /\ inFlight' = IF i < totalIterationsOf(config) /\ HasMethod(Service, chain)
                   THEN inFlight \cup {Call("sign", i)}
                   ELSE inFlight
    /\ UNCHANGED <<reportVars, magicVars, services, config, svcIdx, batchResults, result, chain,
                   serviceResult, signFails, verifyCalls, verifyArgs>>

SignReturns_SkipsWarmupVerify ==
    /\ pc = "sign"
    /\ \E out \in SignOutcomes(Service, chain, signArg, signCalls) :
         /\ out.ok
         /\ serviceResult' = <<out.value>>
         /\ verifyArgs' = IF isWarmup(config, i) THEN verifyArgs
                          ELSE VerifyCallArgs(getChainMethods(chain), out.value)
    /\ verifyCalls' = IF isWarmup(config, i) THEN verifyCalls ELSE verifyCalls + 1
    /\ svcLog' = IF isWarmup(config, i) THEN svcLog ELSE LogBump("verifyCalls")
    /\ gap' = 0
    /\ last' = [iter |-> i, sign |-> "ok", verify |-> "none"]
    /\ pc' = IF isWarmup(config, i) THEN "loop" ELSE "verify"
    /\ i' = IF isWarmup(config, i) THEN i + 1 ELSE i
    /\ inFlight' = (inFlight \ {Call("sign", i)})
                      \cup (IF isWarmup(config, i) THEN {} ELSE {Call("verify", i)})
    /\ UNCHANGED <<reportVars, magicVars, services, config, svcIdx, batchResults, result, chain, results,
                   signCalls, signFails, failedIters, signArg>>

\* const serviceResult = await methods.sign(...) resolves; methods.verify is
\* called
SignReturns ==
    /\ pc = "sign"
    /\ \E out \in SignOutcomes(Service, chain, signArg, signCalls) :
         /\ out.ok
         /\ serviceResult' = <<out.value>>
         /\ verifyArgs' = VerifyCallArgs(getChainMethods(chain), out.value)
    /\ verifyCalls' = verifyCalls + 1
    /\ svcLog' = LogBump("verifyCalls")
    /\ gap' = 0
    /\ last' = [iter |-> i, sign |-> "ok", verify |-> "none"]
    /\ pc' = "verify"
    /\ inFlight' = (inFlight \ {Call("sign", i)}) \cup {Call("verify", i)}
    /\ UNCHANGED <<reportVars, magicVars, services, config, svcIdx, batchResults, result, chain, i, results,
                   signCalls, signFails, failedIters, signArg>>

SignRejects_Propagates ==
    /\ pc = "sign"
    /\ signFails' = signFails + 1
    /\ failedIters' = failedIters \cup {i}
    /\ gap' = 0
    /\ last' = [iter |-> i, sign |-> "failed", verify |-> "none"]
    /\ pc' = "rb_catch"
    /\ inFlight' = inFlight \ {Call("sign", i)}
    /\ UNCHANGED <<reportVars, magicVars, services, config, svcIdx, batchResults, result, chain, i, results,
                   serviceResult, signCalls, verifyCalls, signArg, verifyArgs, svcLog>>

\* a timeout of the runner's own: the pending call is given up and recorded
\* as a failure
SignRejects_TimesOut ==
    /\ pc = "sign"
    /\ results' = PushFailure(config, i, results,
                              [message |-> "timed out", call |-> signCalls])
    /\ i' = i + 1
    /\ signFails' = signFails + 1
    /\ failedIters' = failedIters \cup {i}
    /\ gap' = 0
    /\ last' = [iter |-> i, sign |-> "failed", verify |-> "none"]
    /\ pc' = "loop"
    /\ UNCHANGED <<reportVars, magicVars, inFlight, services, config, svcIdx, batchResults,
                   result, chain, serviceResult, signCalls, verifyCalls, signArg,
                   verifyArgs, svcLog>>

\* the failed iteration is attempted again
SignRejects_Retries ==
    /\ pc = "sign"
    /\ \E out \in SignOutcomes(Service, chain, signArg, signCalls) :
         /\ ~out.ok
         /\ results' = PushFailure(config, i, results, out.error)
    /\ signFails' = signFails + 1
    /\ failedIters' = failedIters \cup {i}
    /\ gap' = 0
    /\ last' = [iter |-> i, sign |-> "failed", verify |-> "none"]
    /\ pc' = "loop"
    /\ inFlight' = inFlight \ {Call("sign", i)}
    /\ UNCHANGED <<reportVars, magicVars, services, config, svcIdx, batchResults, result, chain, i,
                   serviceResult, signCalls, verifyCalls, signArg, verifyArgs, svcLog>>

\* await methods.sign(...) rejects: catch (error) { ... results.push(failure) }
SignRejects ==
    /\ pc = "sign"
    /\ \E out \in SignOutcomes(Service, chain, signArg, signCalls) :
         /\ ~out.ok
         /\ results' = PushFailure(config, i, results, out.error)
    /\ i' = i + 1
    /\ signFails' = signFails + 1
    /\ failedIters' = failedIters \cup {i}
    /\ gap' = 0
    /\ last' = [iter |-> i, sign |-> "failed", verify |-> "none"]
    /\ pc' = "loop"
    /\ inFlight' = inFlight \ {Call("sign", i)}
    /\ UNCHANGED <<reportVars, magicVars, services, config, svcIdx, batchResults, result, chain,
                   serviceResult, signCalls, verifyCalls, signArg, verifyArgs, svcLog>>

\* sleep(config.delayMs) started and not awaited
VerifyReturns_SleepNotAwaited ==
    /\ pc = "verify"
    /\ LET vr == MethodsVerify(getChainMethods(chain),
                               verifyArgs[1], verifyArgs[2], verifyArgs[3])
       IN  /\ last' = [last EXCEPT !.verify =
                              CryptoVerify(verifyArgs[1], verifyArgs[2], verifyArgs[3])]
           /\ IF vr.rejected
              THEN /\ results' = PushFailure(config, i, results,
                                     [message |-> vr.error, call |-> signCalls])
                   /\ i' = i + 1
                   /\ pc' = "loop"
                   /\ gap' = gap
                   /\ inFlight' = inFlight \ {Call("verify", i)}
              ELSE /\ results' = PushSuccess(config, i, results, serviceResult[1], vr.valid)
                   /\ pc' = "loop"
                   /\ i' = i + 1
                   /\ IF DelayDue(config, i)
                      THEN /\ gap' = gap + 1
                           /\ inFlight' = (inFlight \ {Call("verify", i)})
                                              \cup {Call("sleep", i)}
                      ELSE /\ gap' = gap
                           /\ inFlight' = inFlight \ {Call("verify", i)}
    /\ UNCHANGED <<reportVars, magicVars, services, config, svcIdx, batchResults, result, chain,
                   serviceResult, signCalls, signFails, failedIters, verifyCalls,
                   signArg, verifyArgs, svcLog>>

\* const verifyResult = await methods.verify(...) settles; the success is
\* recorded unless warmup; then the delay, if due
VerifyReturns ==
    /\ pc = "verify"
    /\ LET vr == MethodsVerify(getChainMethods(chain),
                               verifyArgs[1], verifyArgs[2], verifyArgs[3])
       IN  /\ last' = [last EXCEPT !.verify =
                              CryptoVerify(verifyArgs[1], verifyArgs[2], verifyArgs[3])]
           /\ IF vr.rejected
              THEN /\ results' = PushFailure(config, i, results,
                                     [message |-> vr.error, call |-> signCalls])
                   /\ i' = i + 1
                   /\ pc' = "loop"
                   /\ gap' = gap
              ELSE /\ results' = PushSuccess(config, i, results, serviceResult[1], vr.valid)
                   /\ IF DelayDue(config, i)
                      THEN pc' = "sleep" /\ i' = i /\ gap' = gap + 1
                      ELSE pc' = "loop" /\ i' = i + 1 /\ gap' = gap
    /\ inFlight' = (inFlight \ {Call("verify", i)})
                      \cup (IF pc' = "sleep" THEN {Call("sleep", i)} ELSE {})
    /\ UNCHANGED <<reportVars, magicVars, services, config, svcIdx, batchResults, result, chain,
                   serviceResult, signCalls, signFails, failedIters, verifyCalls,
                   signArg, verifyArgs, svcLog>>

\* the loop counter is not advanced after the delay
SleepReturns_Repeats ==
    /\ pc = "sleep"
    /\ i' = i
    /\ pc' = "loop"
    /\ inFlight' = inFlight \ {Call("sleep", i)}
    /\ UNCHANGED <<reportVars, magicVars, services, config, svcIdx, batchResults, result, chain, results,
                   serviceResult, signCalls, signFails, failedIters, verifyCalls, gap,
                   last, signArg, verifyArgs, svcLog>>

\* await sleep(config.delayMs) resolves; i++
SleepReturns ==
    /\ pc = "sleep"
    /\ i' = i + 1
    /\ pc' = "loop"
    /\ inFlight' = inFlight \ {Call("sleep", i)}
    /\ UNCHANGED <<reportVars, magicVars, services, config, svcIdx, batchResults, result, chain, results,
                   serviceResult, signCalls, signFails, failedIters, verifyCalls, gap,
                   last, signArg, verifyArgs, svcLog>>

----------------------------------------------------------------------------

Next ==
    \/ BatchNext
    \/ BatchReturn
    \/ BatchCatch
    \/ ServiceReturn
    \/ InitializeOk
    \/ InitializeFail
    \/ EthCheck
    \/ SolCheck
    \/ ChainReturn
    \/ LoopHead
    \/ SignReturns
    \/ SignRejects
    \/ VerifyReturns
    \/ SleepReturns

Spec == Init /\ [][Next]_vars

SpecBatch == InitBatch /\ [][Next]_vars

\* the runner's own steps: synchronous code between two awaits, which the
\* event loop always runs
RunnerSteps ==
    \/ BatchNext
    \/ BatchReturn
    \/ BatchCatch
    \/ ServiceReturn
    \/ EthCheck
    \/ SolCheck
    \/ ChainReturn
    \/ LoopHead

\* an awaited capability call or delay settles: it returns or it fails
CallsSettle ==
    \/ InitializeOk
    \/ InitializeFail
    \/ SignReturns
    \/ SignRejects
    \/ VerifyReturns
    \/ SleepReturns

\* a batch in which every awaited call eventually settles
SpecBatchLive ==
    InitBatch /\ [][Next]_vars /\ WF_vars(RunnerSteps) /\ WF_vars(CallsSettle)

----------------------------------------------------------------------------
(* Reporting: the statistics of the returned results and the rankings      *)

runnerVars == <<services, config, svcIdx, batchResults, result, chainVars, svcLog,
                inFlight, magicVars>>

\* the results of both chains gathered by appending to ethereum.results
AppendedInPlace(br) ==
    IF "ethereum" \in DOMAIN br /\ "solana" \in DOMAIN br
    THEN [br EXCEPT !.ethereum.results = @ \o br.solana.results]
    ELSE br

CalculateAllStats_AppendsInPlace ==
    /\ pc = "returned"
    /\ allStats' = <<calculateAllStats(batchResults)>>
    /\ batchResults' = [k \in DOMAIN batchResults |-> AppendedInPlace(batchResults[k])]
    /\ pc' = "stats"
    /\ UNCHANGED <<services, config, svcIdx, result, chainVars, svcLog, inFlight,
                   magicVars, rankings>>

\* const allStats = calculateAllStats(results)
CalculateAllStats ==
    /\ pc = "returned"
    /\ allStats' = <<calculateAllStats(batchResults)>>
    /\ pc' = "stats"
    /\ UNCHANGED <<runnerVars, rankings>>

\* rankServicesByChain(stats, chain) applied to a ServiceStats list, for
\* each chain
RankServices ==
    /\ pc = "stats"
    /\ rankings' = <<[ethereum |-> rankServicesByChain(allStats[1], "ethereum"),
                       solana |-> rankServicesByChain(allStats[1], "solana")]>>
    /\ pc' = "reported"
    /\ UNCHANGED <<runnerVars, allStats>>

NextStats ==
    \/ CalculateAllStats
    \/ RankServices

\* the chains runBenchmarkWithConfig displays a ranking of: none for a single
\* ServiceStats (the detailed view only), else the chains asked for
DisplayedChains(stats, c) ==
    IF Len(stats) = 1 THEN {}
    ELSE {d \in {"ethereum", "solana"} : c = d \/ c = "both"}

\* if (allStats.length === 1) { detailed view } else { displayRankings(allStats,
\* 'ethereum') and/or displayRankings(allStats, 'solana'), as asked for }
DisplayResults ==
    /\ pc = "stats"
    /\ rankings' = <<[c \in DisplayedChains(allStats[1], config.chain)
                         |-> rankServicesByChain(allStats[1], c)]>>
    /\ pc' = "reported"
    /\ UNCHANGED <<runnerVars, allStats>>

NextReport ==
    \/ Next
    \/ CalculateAllStats
    \/ DisplayResults

\* the statistics functions applied to a BenchmarkResult list
SpecStats == InitStats /\ [][NextStats]_vars

\* a run of the runner followed by the report of its results
SpecReport == InitReport /\ [][NextReport]_vars

\* the statistics and the rankings of a batch of several services
SpecRank == InitRank /\ [][NextStats]_vars

----------------------------------------------------------------------------
(* Calls made on the MagicWalletService object by a caller other than the  *)
(* runner, before the batch runs and after it has returned.                *)

DirectCalls == Cardinality({k \in DOMAIN magicLog : magicLog[k].by = "caller"})

DirectCallAllowed ==
    /\ \E k \in DOMAIN services : services[k] = MagicService
    /\ pc = "returned" \/ (pc = "rb_loop" /\ svcIdx = 1)
    /\ DirectCalls < MaxDirectCalls

\* await magic.initialize()
MagicInitializeCall ==
    /\ DirectCallAllowed
    /\ \E net \in FetchOutcomes :
          LET out == MagicInitialize(magic, net)
          IN  /\ magic' = out.obj
              /\ magicLog' = Append(magicLog, [op |-> "initialize", by |-> "caller",
                                               outcome |-> out.outcome])
    /\ UNCHANGED <<reportVars, services, config, pc, svcIdx, batchResults, result,
                   chainVars, svcLog, inFlight>>

MagicSignOp(c) == IF c = "ethereum" THEN "signMessageEthereum" ELSE "signMessageSolana"

\* await magic.signMessageEthereum(message) / magic.signMessageSolana(message)
MagicSignCall(c) ==
    /\ DirectCallAllowed
    /\ \E net \in FetchOutcomes :
          magicLog' = Append(magicLog, [op |-> MagicSignOp(c), by |-> "caller",
                                        outcome |-> MagicSign(magic, c, net)])
    /\ UNCHANGED <<reportVars, services, config, pc, svcIdx, batchResults, result,
                   chainVars, svcLog, inFlight, magic>>

NextMagic ==
    \/ Next
    \/ MagicInitializeCall
    \/ \E c \in {"ethereum", "solana"} : MagicSignCall(c)

\* a batch with the MagicWalletService in it, and callers of the object
SpecMagic == InitMagic /\ [][NextMagic]_vars

----------------------------------------------------------------------------
(* Properties                                                              *)

ChainPcs == {"loop", "sign", "verify", "sleep", "chain_return"}

Warmups == warmupIterationsOf(config)
Total == totalIterationsOf(config)

\* the run was configured with a delay above zero
PositiveDelay == "delayMs" \in DOMAIN config /\ config.delayMs > 0

ServiceNamed(name) == CHOOSE s \in {services[k] : k \in DOMAIN services} : s.name = name

ChainResultsOf(br) == {br[f] : f \in DOMAIN br \ {"serviceName"}}

\* every ChainBenchmarkResult a chain run has returned so far
ReturnedChainResults ==
    ChainResultsOf(result)
        \cup UNION {ChainResultsOf(batchResults[k]) : k \in DOMAIN batchResults}

\* the number of the signing call (or of the iteration) a record comes from
Origin(r) == IF r.success THEN r.signature.id ELSE r.error.call

NamesOf(seq) == [k \in DOMAIN seq |-> seq[k].name]
ServiceNamesOf(seq) == [k \in DOMAIN seq |-> seq[k].serviceName]

OnlyMeasured(res, service) ==
    \A k \in DOMAIN res :
        /\ Origin(res[k]) > Warmups
        /\ res[k].success => res[k].apiLatencyMs = LatencyOf(service, Origin(res[k]))

\* C1: the results sequence of a chain run, while it is built and once it is
\* returned, holds only outcomes of measured iterations: every record comes
\* from a call after the W warmup calls, and every recorded latency is the
\* latency of such a call; no warmup outcome is ever appended.
C1_WarmupNeverRecorded ==
    /\ pc \in ChainPcs => OnlyMeasured(results, Service)
    /\ \A cr \in ReturnedChainResults :
          OnlyMeasured(cr.results, ServiceNamed(cr.serviceName))

C1_Witness ==
    /\ pc = "chain_return"
    /\ Warmups >= 1
    /\ config.iterations >= 1
    /\ signCalls = Total
    /\ \E k \in DOMAIN results : results[k].success

\* C2: every returned ChainResult has successCount + errorCount equal to the
\* length of its results sequence, which equals config.iterations, and the
\* statistics derived from it report that number as iterations.
C2_CountsMatchIterations ==
    \A cr \in ReturnedChainResults :
        /\ cr.successCount + cr.errorCount = Len(cr.results)
        /\ Len(cr.results) = config.iterations
        /\ computeStatsIterations(cr.successCount, cr.errorCount) = config.iterations

C2_Witness ==
    \E cr \in ReturnedChainResults : cr.successCount >= 1 /\ cr.errorCount >= 1

\* C3: a signing failure never aborts the chain run and never reaches the
\* caller of runBenchmark: the loop moves on to the next iteration, the run
\* returns only after all W + N iterations were attempted, and the only
\* error runBenchmarks ever catches is a failed initialize().
C3_FailureNeverAborts ==
    /\ pc = "chain_return" =>
          /\ i = Total
          /\ HasMethod(Service, chain) => signCalls = Total
    /\ pc = "rb_catch" => ~Service.initOk
    /\ (pc = "loop" /\ last.sign = "failed") => i = last.iter + 1

C3_Witness ==
    /\ pc = "chain_return"
    /\ Warmups >= 1
    /\ config.iterations >= 2
    /\ signFails = Total

\* C4: when a service's initialize() fails, runBenchmark makes no signing
\* and no verification call for it, returns no result for it (none is
\* collected), and raises the failure to its caller.
C4_InitFailureSuppressesService ==
    \A k \in DOMAIN svcLog :
        ~services[k].initOk =>
            /\ svcLog[k].signCalls = 0
            /\ svcLog[k].verifyCalls = 0
            /\ svcLog[k].outcome # "returned"
            /\ \A j \in DOMAIN batchResults :
                  batchResults[j].serviceName # services[k].name
            /\ k = svcIdx => pc \in {"initialize", "rb_catch"}
            /\ (k < svcIdx \/ pc = "rb_catch") => svcLog[k].outcome = "raised"

C4_Witness ==
    /\ pc = "returned"
    /\ \E k \in DOMAIN svcLog : ~services[k].initOk /\ svcLog[k].outcome = "raised"
    /\ WantsEthereum(config)
    /\ config.iterations >= 1

\* C5: in runBenchmarks a service-level failure never aborts the batch:
\* runBenchmarks never raises, and when it returns every service of the
\* input has been initialized once, every service whose initialize()
\* succeeded has been benchmarked and collected, and every failed one is
\* left out.
C5_BatchSurvivesServiceFailure ==
    /\ pc # "raised"
    /\ pc = "returned" =>
          /\ Len(svcLog) = Len(services)
          /\ \A k \in DOMAIN services :
                /\ svcLog[k].name = services[k].name
                /\ svcLog[k].initCalls = 1
                /\ services[k].initOk =>
                      /\ svcLog[k].outcome = "returned"
                      /\ \E j \in DOMAIN batchResults :
                            batchResults[j].serviceName = services[k].name
                /\ ~services[k].initOk =>
                      /\ svcLog[k].outcome = "raised"
                      /\ \A j \in DOMAIN batchResults :
                            batchResults[j].serviceName # services[k].name

C5_Witness ==
    /\ pc = "returned"
    /\ \E k \in DOMAIN services :
          /\ k < Len(services)
          /\ ~services[k].initOk
          /\ services[k + 1].initOk
          /\ svcLog[k + 1].signCalls > 0

\* C6: the collection returned by runBenchmarks is exactly the subsequence
\* of the input services that did not fail at service level, in input order,
\* each exactly once.
C6_ResultsAreSurvivorsInOrder ==
    pc \in {"rb_loop", "returned"} =>
        ServiceNamesOf(batchResults)
            = NamesOf(SelectSeq(SubSeq(services, 1, svcIdx - 1), LAMBDA s : s.initOk))

C6_Witness ==
    /\ pc = "returned"
    /\ NamesOf(services) = <<"A", "B", "C">>
    /\ ServiceNamesOf(batchResults) = <<"A", "C">>

\* C7 as claimed: the verification capability is never invoked for an
\* iteration in a warmup state.
C7_NoVerifyInWarmup ==
    pc = "verify" => ~isWarmup(config, i)

\* C7 amended: verification is invoked once for every iteration whose signing
\* call succeeded, warmup iterations included, and for no iteration whose
\* signing failed; a warmup's verification leaves the results untouched.
C7_VerifiedWheneverSigned ==
    /\ pc \in ChainPcs =>
          verifyCalls = signCalls - signFails - (IF pc = "sign" THEN 1 ELSE 0)
    /\ pc = "verify" => last.sign = "ok" /\ last.iter = i
    /\ (pc \in ChainPcs /\ i <= Warmups /\ ~(pc = "sleep" /\ i = Warmups))
          => results = <<>>

C7_Witness ==
    /\ pc = "verify"
    /\ isWarmup(config, i)
    /\ signFails >= 1

\* C8: with a positive delay, exactly one sleep separates any two
\* consecutive iterations, whether the earlier one succeeded or failed, and
\* no sleep follows the final iteration.
C8_OneDelayBetweenIterations ==
    /\ (PositiveDelay /\ pc = "sign" /\ i > 0) => gap = 1
    /\ pc = "chain_return" => gap = 0

\* C9: when the verification capability raises for a measured iteration
\* whose signing succeeded, the iteration is recorded as a Success with
\* verified = false and its latency (so it counts in successCount and in
\* verificationFailures), not as a Failure, and the run goes on.
C9_VerifierErrorIsUnverifiedSuccess ==
    (pc \in ChainPcs /\ last.verify = "raised" /\ ~isWarmup(config, last.iter)) =>
        /\ results # <<>>
        /\ LET r == results[Len(results)]
           IN  /\ r.success
               /\ r.verified = FALSE
               /\ r.signature = serviceResult[1].signature
               /\ r.apiLatencyMs = serviceResult[1].apiLatencyMs
        /\ ChainBenchmarkResult(chain, Service.name, results).successCount >= 1
        /\ countVerifications(results).verificationFailures >= 1
        /\ pc \in {"sleep", "loop", "sign", "chain_return"}
        /\ pc = "sleep" => i = last.iter
        /\ pc \in {"loop", "sign"} => i = last.iter + 1

C9_Witness ==
    /\ pc = "sign"
    /\ last.verify = "raised"
    /\ ~isWarmup(config, last.iter)

\* C10: verification is invoked only after the signing call of the same
\* iteration has returned, with the message that was signed and the
\* signature and wallet address that call returned; it has completed before
\* the next signing call starts; and the recorded apiLatencyMs is the one the
\* signing call reported.
C10_VerifyAfterSign ==
    /\ pc = "verify" =>
          /\ last = [iter |-> i, sign |-> "ok", verify |-> "none"]
          /\ serviceResult # <<>>
          /\ serviceResult[1].signature.id = signCalls
          /\ verifyArgs = <<signArg, serviceResult[1].signature,
                            serviceResult[1].walletAddress>>
    /\ (pc = "sign" /\ last.sign = "ok") => last.verify # "none"
    /\ (pc \in ChainPcs /\ last.sign = "ok" /\ last.verify # "none"
            /\ ~isWarmup(config, last.iter)) =>
          /\ results # <<>>
          /\ results[Len(results)].success
          /\ results[Len(results)].apiLatencyMs
                = LatencyOf(Service, serviceResult[1].signature.id)

C10_Witness ==
    /\ pc = "verify"
    /\ chain = "solana"
    /\ ~isWarmup(config, i)
    /\ i > 0

----------------------------------------------------------------------------
(* Properties of the report                                                *)

StatsReady == pc \in {"stats", "reported"}

\* the services in the ranking of chain c (none when no ranking of c was made)
RankedNames(c) ==
    IF c \in DOMAIN rankings[1]
    THEN {rankings[1][c][k].serviceName : k \in DOMAIN rankings[1][c]}
    ELSE {}

\* the returned BenchmarkResults of the service called name
ResultsNamed(name) ==
    {batchResults[k] : k \in {j \in DOMAIN batchResults :
                                 batchResults[j].serviceName = name}}

\* C11: when both chains are requested of a service that initializes and has
\* no signMessageSolana, the service is not failed, only its Ethereum chain
\* runs (no signing call with the Solana message, at most one chain run's
\* signing calls), its returned result has ethereum with one record per
\* measured iteration and no solana, and the Solana ranking has no entry
\* for it.
C11_NoSolanaMethodKeepsEthereum ==
    \A k \in DOMAIN svcLog :
        LET svc == ServiceNamed(svcLog[k].name)
        IN  (config.chain = "both" /\ svc.initOk /\ svc.hasEth /\ ~svc.hasSol) =>
              /\ svcLog[k].outcome # "raised"
              /\ svcLog[k].signCalls <= Total
              /\ (k = Len(svcLog) /\ pc \in ChainPcs) =>
                    /\ chain = "ethereum"
                    /\ signArg \in {"", STANDARD_ETHEREUM_MESSAGE}
              /\ svcLog[k].outcome = "returned" =>
                    /\ svcLog[k].signCalls = Total
                    /\ ResultsNamed(svc.name) # {}
                    /\ \A br \in ResultsNamed(svc.name) :
                          /\ DOMAIN br = {"serviceName", "ethereum"}
                          /\ Len(br.ethereum.results) = config.iterations
              /\ pc = "reported" => svc.name \notin RankedNames("solana")

C11_Witness ==
    /\ pc = "reported"
    /\ config.chain = "both"
    /\ \E k \in DOMAIN batchResults :
          /\ ~ServiceNamed(batchResults[k].serviceName).hasSol
          /\ batchResults[k].ethereum.successCount > 0
          /\ batchResults[k].serviceName \in RankedNames("ethereum")
    /\ RankedNames("solana") # {}

\* C12: a requested chain whose signing method the service lacks, Ethereum
\* as well as Solana, is skipped: a returned result has a chain's
\* ChainResult only if the service has that chain's signing method.
C12_MissingMethodSkipsChain ==
    \A k \in DOMAIN batchResults :
        \A c \in {"ethereum", "solana"} :
            c \in DOMAIN batchResults[k] =>
                HasMethod(ServiceNamed(batchResults[k].serviceName), c)

\* C13 as stated: every returned result has ethereum or solana.
C13_SomeChainPresent ==
    \A k \in DOMAIN batchResults :
        "ethereum" \in DOMAIN batchResults[k] \/ "solana" \in DOMAIN batchResults[k]

\* C13: a returned result has ethereum exactly when the configuration asks
\* for Ethereum, and solana exactly when it asks for Solana and the service
\* has signMessageSolana; nothing else decides what is present.
C13_ChainsPresentAsRequested ==
    \A k \in DOMAIN batchResults :
        LET br == batchResults[k]
            svc == ServiceNamed(br.serviceName)
        IN  /\ ("ethereum" \in DOMAIN br) <=> WantsEthereum(config)
            /\ ("solana" \in DOMAIN br) <=> (WantsSolana(config) /\ svc.hasSol)

C13_Witness ==
    /\ pc = "returned"
    /\ \E k \in DOMAIN batchResults :
          /\ DOMAIN batchResults[k] = {"serviceName"}
          /\ svcLog[k].outcome = "returned"
          /\ config.chain = "solana"

\* the iterations of the current chain run recorded as Failure, by the call
\* each Failure record carries
FailureIters(res) == {res[k].error.call - 1 : k \in {j \in DOMAIN res : ~res[j].success}}

\* C14 as stated: every failed signing attempt of the chain run, warmup or
\* measured, is counted in the errorCount of the ChainResult being returned.
C14_EveryFailureCounted ==
    pc = "chain_return" => errorCountOf(results) = Cardinality(failedIters)

\* C14: the Failure records of a chain run are exactly its failed measured
\* iterations, one record each and each with the error's message; a failure
\* in a warmup iteration leaves no record and is not counted.
C14_MeasuredFailuresRecorded ==
    pc \in ChainPcs =>
        /\ FailureIters(results) = {j \in failedIters : ~isWarmup(config, j)}
        /\ errorCountOf(results) = Cardinality(FailureIters(results))
        /\ \A k \in DOMAIN results :
              ~results[k].success => results[k].error.message # ""

C14_Witness ==
    /\ pc = "chain_return"
    /\ \E j \in failedIters : isWarmup(config, j)
    /\ \E j \in failedIters : ~isWarmup(config, j)
    /\ errorCountOf(results) < Cardinality(failedIters)
    /\ signFails = Cardinality(failedIters)

----------------------------------------------------------------------------
(* Exact arithmetic on numbers, to state what a computed number is close   *)
(* to: the same [s, m, e] values with a significand of any length, and no  *)
(* rounding.                                                               *)

XAdd(x, y) ==
    IF IsZero(x) THEN y
    ELSE IF IsZero(y) THEN x
    ELSE LET e == IF x.e < y.e THEN x.e ELSE y.e
             a == BnShl(x.m, x.e - e)
             b == BnShl(y.m, y.e - e)
             c == BnCmp(a, b)
         IN  IF x.s = y.s THEN [s |-> x.s, m |-> BnAdd(a, b), e |-> e]
             ELSE IF c = 0 THEN FZero
             ELSE IF c > 0 THEN [s |-> x.s, m |-> BnSub(a, b), e |-> e]
             ELSE [s |-> y.s, m |-> BnSub(b, a), e |-> e]

XSub(x, y) == XAdd(x, FNeg(y))

XMul(x, y) ==
    IF IsZero(x) \/ IsZero(y) THEN FZero
    ELSE [s |-> x.s * y.s, m |-> BnMul(x.m, y.m), e |-> x.e + y.e]

\* x * k for an integer 0 <= k < 2^15
XMulInt(x, k) ==
    IF IsZero(x) \/ k = 0 THEN FZero
    ELSE [s |-> x.s, m |-> BnMulSmall(x.m, k), e |-> x.e]

XAbs(x) == [x EXCEPT !.s = 1]

XLeq(x, y) == LET d == XSub(x, y) IN IsZero(d) \/ d.s = -1

\* |x - y| <= 2^-45 * |scale|: x is y up to the rounding of a few operations
\* on numbers of the size of scale
Close(x, y, scale) ==
    LET d == XAbs(XSub(x, y))
    IN  IsZero(d) \/ XLeq([d EXCEPT !.e = @ + 45], XAbs(scale))

RECURSIVE XSum(_)
XSum(seq) == IF seq = <<>> THEN FZero ELSE XAdd(seq[1], XSum(Tail(seq)))

RECURSIVE XSumSquares(_)
XSumSquares(seq) ==
    IF seq = <<>> THEN FZero ELSE XAdd(XMul(seq[1], seq[1]), XSumSquares(Tail(seq)))

\* the chain statistics of the report, each with the results it was
\* computed from: of one chain, or of both chains for "consolidated"
ReportedStats ==
    UNION { { [stats |-> allStats[1][k][f],
               source |-> IF f = "consolidated"
                          THEN batchResults[k].ethereum.results
                               \o batchResults[k].solana.results
                          ELSE batchResults[k][f].results]
              : f \in DOMAIN allStats[1][k] \ {"serviceName"} }
            : k \in DOMAIN allStats[1] }

\* C15: in every reported ChainStats, verifiedCount is the number of Success
\* records with verified = true and verificationFailures the number with
\* verified = false, so the two add up to successCount; and a measured
\* iteration whose verification fails is recorded as a Success with
\* verified = false while the chain run goes on.
C15_VerificationCountsSplitSuccesses ==
    /\ StatsReady =>
          \A en \in ReportedStats :
              LET src == en.source
                  ok == {k \in DOMAIN src : src[k].success}
              IN  /\ en.stats.verifiedCount =
                        Cardinality({k \in ok : src[k].verified})
                  /\ en.stats.verificationFailures =
                        Cardinality({k \in ok : ~src[k].verified})
                  /\ en.stats.verifiedCount + en.stats.verificationFailures
                        = en.stats.successCount
    /\ (pc \in {"loop", "sleep"} /\ last.sign = "ok" /\ last.verify \in {"false", "raised"}
          /\ ~isWarmup(config, last.iter)) =>
          /\ results # <<>>
          /\ results[Len(results)].success
          /\ results[Len(results)].verified = FALSE
          /\ Len(results) = last.iter - Warmups + 1

C15_Witness ==
    /\ pc = "reported"
    /\ \E en \in ReportedStats :
          /\ en.stats.verificationFailures > 0
          /\ en.stats.verifiedCount > 0

\* C16: of results with no Success record (no iteration at all included),
\* the statistics are computed without error: mean, median, min, max, p95,
\* p99, variance, standardDeviation and total are 0, the latency list is
\* empty, successRate is 0, and successCount and errorCount are those of
\* the ChainResult.
C16_NoSamplesGiveZeroStats ==
    StatsReady =>
        \A k \in DOMAIN allStats[1] :
            LET cr == batchResults[k].ethereum
                cs == allStats[1][k].ethereum
            IN  (\A j \in DOMAIN cr.results : ~cr.results[j].success) =>
                  /\ \A f \in {"mean", "median", "min", "max", "p95", "p99",
                               "variance", "standardDeviation", "total",
                               "successRate"} : cs[f] = FZero
                  /\ cs.latencies = <<>>
                  /\ cs.successCount = cr.successCount
                  /\ cs.errorCount = cr.errorCount
                  /\ cs.iterations = cr.successCount + cr.errorCount

C16_Witness ==
    /\ pc = "stats"
    /\ batchResults[1].ethereum.errorCount = MaxSamples
    /\ batchResults[1].ethereum.successCount = 0
    /\ allStats[1][1].ethereum.errorCount = MaxSamples

\* C17: of a non-empty latency list, min <= median <= max,
\* min <= p95 <= p99 <= max and min <= mean <= max.
C17_StatisticsWithinRange ==
    StatsReady =>
        \A en \in ReportedStats :
            LET cs == en.stats
            IN  cs.latencies # <<>> =>
                  /\ FLeq(cs.min, cs.median) /\ FLeq(cs.median, cs.max)
                  /\ FLeq(cs.min, cs.p95) /\ FLeq(cs.p95, cs.p99)
                  /\ FLeq(cs.p99, cs.max)
                  /\ FLeq(cs.min, cs.mean) /\ FLeq(cs.mean, cs.max)

IsExample(cs) == cs.latencies = SortAscending(ExampleLatencies)

\* what getPercentile is to return for percentile p of the sorted list s:
\* s[x] when x = (p/100)(n-1) is an integer, and otherwise the number
\* between s[floor x] and s[ceil x] in the proportion of x's fraction
IsInterpolation(v, s, p) ==
    LET x100 == p * (Len(s) - 1)
        lower == x100 \div 100
        r == x100 % 100
    IN  IF r = 0 THEN v = s[lower + 1]
        ELSE Close(XMulInt(v, 100),
                   XAdd(XMulInt(s[lower + 1], 100 - r), XMulInt(s[lower + 2], r)),
                   XMulInt(s[Len(s)], 100))

\* C18: median, p95 and p99 are the linear interpolation of the sorted
\* latencies at index (p/100)(n-1), the element itself when the index is an
\* integer, up to the rounding of the arithmetic; of
\* [100, 120, 110, 130, 105] the median is 110 and p95 is 128.
C18_PercentileInterpolates ==
    StatsReady =>
        \A en \in ReportedStats :
            LET cs == en.stats
            IN  cs.latencies # <<>> =>
                  /\ IsInterpolation(cs.median, cs.latencies, 50)
                  /\ IsInterpolation(cs.p95, cs.latencies, 95)
                  /\ IsInterpolation(cs.p99, cs.latencies, 99)
                  /\ IsExample(cs) =>
                        cs.median = FromInt(110) /\ cs.p95 = FromInt(128)

C18_Witness ==
    /\ pc = "stats"
    /\ IsExample(allStats[1][1].ethereum)
    /\ allStats[1][1].ethereum.p95 = FromInt(128)
    /\ allStats[1][1].ethereum.p95 \notin
          {allStats[1][1].ethereum.latencies[k] : k \in 1..5}

\* total is the sum of the latencies, mean is total / n and variance is the
\* sum of the squared deviations from the mean divided by n, each up to the
\* rounding of the arithmetic: n^2 * variance = n * sum(x^2) - (sum x)^2
SumMeanVarianceAsDefined ==
    StatsReady =>
        \A en \in ReportedStats :
            LET cs == en.stats
                lat == extractLatencies(en.source)
                n == Len(lat)
            IN  n > 0 =>
                  /\ Close(cs.total, XSum(lat), XSum(lat))
                  /\ Close(XMulInt(cs.mean, n), cs.total, cs.total)
                  /\ Close(XMulInt(cs.variance, n * n),
                           XSub(XMulInt(XSumSquares(lat), n), XMul(XSum(lat), XSum(lat))),
                           XMulInt(XSumSquares(lat), n))

\* C19 as stated: total, mean and population variance as defined, and of
\* [100, 120, 110, 130, 105] the mean is 113 and the variance is 104.
C19_ExampleVariance104 ==
    /\ SumMeanVarianceAsDefined
    /\ StatsReady =>
          \A en \in ReportedStats :
              IsExample(en.stats) =>
                  en.stats.mean = FromInt(113) /\ en.stats.variance = FromInt(104)

\* C19: total is the sum, mean is total / n and variance is the population
\* variance (division by n, not n - 1); of [100, 120, 110, 130, 105] the
\* total is 565, the mean is 113 and the variance is 116.
C19_PopulationVariance ==
    /\ SumMeanVarianceAsDefined
    /\ StatsReady =>
          \A en \in ReportedStats :
              IsExample(en.stats) =>
                  /\ en.stats.total = FromInt(565)
                  /\ en.stats.mean = FromInt(113)
                  /\ en.stats.variance = FromInt(116)

C19_Witness ==
    /\ pc = "stats"
    /\ IsExample(allStats[1][1].ethereum)
    /\ allStats[1][1].ethereum.variance = FromInt(116)
    /\ allStats[1][1].ethereum.mean = FromInt(113)

\* C20: of the results of a chain run, successRate is
\* successCount / (successCount + errorCount) * 100 (up to the rounding of
\* the arithmetic, and exactly 100 when nothing failed) when some iteration
\* was measured and 0 otherwise; it is never below 0 nor above 100.
C20_SuccessRateIsPercentage ==
    StatsReady =>
        \A en \in ReportedStats :
            LET sc == successCountOf(en.source)
                ec == errorCountOf(en.source)
                rate == en.stats.successRate
            IN  /\ IF sc + ec > 0
                   THEN /\ Close(XMulInt(rate, sc + ec), FromInt(100 * sc),
                                 FromInt(100 * sc))
                        /\ ec = 0 => rate = FromInt(100)
                   ELSE rate = FZero
                /\ FLeq(FZero, rate)
                /\ FLeq(rate, FromInt(100))

C20_Witness ==
    /\ pc = "reported"
    /\ \E en \in ReportedStats :
          /\ successCountOf(en.source) > 0
          /\ errorCountOf(en.source) > 0
          /\ en.stats.successRate = FromInt(50)

----------------------------------------------------------------------------
(* Properties of the rankings                                              *)

RankedChains == {"ethereum", "solana"}

\* where the service called name stands in the list handed to the ranking
StatsIndex(name) ==
    CHOOSE k \in DOMAIN allStats[1] : allStats[1][k].serviceName = name

\* how many entries of the ranking of chain c the service called name has
EntriesOf(c, name) ==
    Cardinality({j \in DOMAIN rankings[1][c] : rankings[1][c][j].serviceName = name})

\* the service has statistics for chain c with a success rate above zero
Rankable(st, c) == c \in DOMAIN st /\ FCmp(st[c].successRate, FZero) > 0

\* C21: a ranking has no entry whose success rate is 0 and no entry for a
\* service whose statistics for the chain have success rate 0; the ranks are
\* 1..N in list order; the medians never decrease along the list.
C21_RankingDenseSortedNoZeroRate ==
    pc = "reported" =>
        \A c \in RankedChains :
            LET r == rankings[1][c]
            IN  /\ \A k \in DOMAIN r :
                      /\ r[k].rank = k
                      /\ ~IsZero(r[k].successRate)
                /\ \A k \in DOMAIN allStats[1] :
                      (c \in DOMAIN allStats[1][k]
                          /\ IsZero(allStats[1][k][c].successRate))
                      => EntriesOf(c, allStats[1][k].serviceName) = 0
                /\ \A k \in 1..(Len(r) - 1) : FLeq(r[k].median, r[k + 1].median)

C21_Witness ==
    /\ pc = "reported"
    /\ Len(rankings[1].ethereum) >= 2
    /\ Len(allStats[1]) = 3
    /\ IsZero(allStats[1][2].ethereum.successRate)
    /\ rankings[1].ethereum[1].serviceName = allStats[1][3].serviceName
    /\ rankings[1].ethereum[2].serviceName = allStats[1][1].serviceName
    /\ FCmp(rankings[1].ethereum[1].median, rankings[1].ethereum[2].median) < 0

\* C22: two services of equal median latency stand in the ranking in the
\* order they have in the input list.
C22_TiesKeepInputOrder ==
    pc = "reported" =>
        \A c \in RankedChains :
            LET r == rankings[1][c]
            IN  \A j, k \in DOMAIN r :
                    (j < k /\ FCmp(r[j].median, r[k].median) = 0)
                    => StatsIndex(r[j].serviceName) < StatsIndex(r[k].serviceName)

C22_Witness ==
    /\ pc = "reported"
    /\ \E j, k \in DOMAIN rankings[1].ethereum :
          /\ j < k
          /\ FCmp(rankings[1].ethereum[j].median, rankings[1].ethereum[k].median) = 0
          /\ rankings[1].ethereum[j].successRate # rankings[1].ethereum[k].successRate
    /\ \E j \in DOMAIN rankings[1].ethereum :
          StatsIndex(rankings[1].ethereum[j].serviceName) # j

\* C23: the ranking of a chain has one entry for each service that has
\* statistics for the chain with a success rate above 0 and none for any
\* other service, and an entry repeats the median, mean, p95 and success
\* rate of its service's statistics for the chain.
C23_RankingCoversRankableServices ==
    pc = "reported" =>
        \A c \in RankedChains :
            /\ \A k \in DOMAIN allStats[1] :
                  EntriesOf(c, allStats[1][k].serviceName)
                      = IF Rankable(allStats[1][k], c) THEN 1 ELSE 0
            /\ \A j \in DOMAIN rankings[1][c] :
                  LET e == rankings[1][c][j]
                  IN  /\ e.chain = c
                      /\ \E k \in DOMAIN allStats[1] :
                            /\ allStats[1][k].serviceName = e.serviceName
                            /\ c \in DOMAIN allStats[1][k]
                            /\ e.median = allStats[1][k][c].median
                            /\ e.mean = allStats[1][k][c].mean
                            /\ e.p95 = allStats[1][k][c].p95
                            /\ e.successRate = allStats[1][k][c].successRate

C23_Witness ==
    /\ pc = "reported"
    /\ Len(rankings[1].solana) >= 1
    /\ \E k \in DOMAIN allStats[1] : "solana" \notin DOMAIN allStats[1][k]
    /\ \E k \in DOMAIN allStats[1] :
          /\ "solana" \in DOMAIN allStats[1][k]
          /\ ~Rankable(allStats[1][k], "solana")
          /\ Rankable(allStats[1][k], "ethereum")
    /\ rankings[1].solana # rankings[1].ethereum

\* how often v occurs in seq
Occurrences(seq, v) == Cardinality({k \in DOMAIN seq : seq[k] = v})

SameElements(a, b) ==
    /\ Len(a) = Len(b)
    /\ \A k \in DOMAIN a : Occurrences(a, a[k]) = Occurrences(b, a[k])

\* the latencies of the successful records of a results sequence, in order
SuccessfulLatencies(res) ==
    LET idx == {k \in DOMAIN res : res[k].success}
        nth[n \in 0..Cardinality(idx)] ==
            IF n = 0 THEN <<>>
            ELSE Append(nth[n - 1],
                        res[CHOOSE k \in idx :
                                Cardinality({j \in idx : j < k}) = n - 1].apiLatencyMs)
    IN  nth[Cardinality(idx)]

\* C24: the statistics of a service have consolidated exactly when its
\* result has both ethereum and solana; the consolidated latencies are the
\* successful latencies of both chains together, in ascending order, and the
\* consolidated counts are the sums of the two chains' counts.
C24_ConsolidatedIsUnionOfChains ==
    StatsReady =>
        \A k \in DOMAIN allStats[1] :
            LET st == allStats[1][k]
                br == batchResults[k]
            IN  /\ ("consolidated" \in DOMAIN st)
                      <=> ("ethereum" \in DOMAIN br /\ "solana" \in DOMAIN br)
                /\ "consolidated" \in DOMAIN st =>
                      LET con == st.consolidated
                      IN  /\ SameElements(con.latencies,
                                SuccessfulLatencies(br.ethereum.results)
                                    \o SuccessfulLatencies(br.solana.results))
                          /\ \A j \in 1..(Len(con.latencies) - 1) :
                                FLeq(con.latencies[j], con.latencies[j + 1])
                          /\ con.successCount
                                = st.ethereum.successCount + st.solana.successCount
                          /\ con.errorCount
                                = st.ethereum.errorCount + st.solana.errorCount
                          /\ con.verifiedCount
                                = st.ethereum.verifiedCount + st.solana.verifiedCount
                          /\ con.verificationFailures
                                = st.ethereum.verificationFailures
                                    + st.solana.verificationFailures

C24_Witness ==
    /\ pc = "stats"
    /\ \E k \in DOMAIN allStats[1] :
          /\ "consolidated" \in DOMAIN allStats[1][k]
          /\ Len(allStats[1][k].consolidated.latencies) = 3
          /\ allStats[1][k].consolidated.errorCount = 1
          /\ allStats[1][k].consolidated.verificationFailures = 2
          /\ allStats[1][k].solana.errorCount = 1
          /\ allStats[1][k].consolidated.latencies[1]
                # batchResults[k].ethereum.results[1].apiLatencyMs
    /\ \E k \in DOMAIN allStats[1] : "consolidated" \notin DOMAIN allStats[1][k]

----------------------------------------------------------------------------
(* Properties of the order of execution                                    *)

AwaitPcs == {"initialize", "sign", "verify", "sleep"}

\* C25: at most one capability call or delay is in progress at any time, and
\* it is the one the control flow awaits; the signing call of an iteration
\* starts only when the previous iteration of the chain run has signed and,
\* if it signed, verified, and nothing of it is in progress; a service
\* starts only when every earlier service has returned or failed.
C25_StrictlySequential ==
    /\ Cardinality(inFlight) <= 1
    /\ pc = "initialize" => inFlight = {Call("initialize", -1)}
    /\ pc = "sign" => inFlight = {Call("sign", i)}
    /\ pc = "verify" => inFlight = {Call("verify", i)}
    /\ pc = "sleep" => inFlight = {Call("sleep", i)}
    /\ pc \notin AwaitPcs => inFlight = {}
    /\ (pc = "sign" /\ i > 0) =>
          /\ last.iter = i - 1
          /\ last.sign = "ok" => last.verify # "none"
    /\ \A k \in 1..(Len(svcLog) - 1) : svcLog[k].outcome \in {"returned", "raised"}
    /\ pc = "initialize" => Len(svcLog) = svcIdx

C25_Witness ==
    /\ pc = "sign"
    /\ svcIdx = 3
    /\ svcLog[1].outcome = "raised"
    /\ svcLog[2].outcome = "returned"
    /\ chain = "solana"
    /\ i >= 1
    /\ PositiveDelay
    /\ gap = 1

\* C26: initialize() is called once in a service run, and no signing call
\* of the service is made before it has resolved: while it is pending, and
\* after it rejected, the service has no signing call; the second chain run
\* starts without another initialize().
C26_InitializeOnceBeforeSigning ==
    \A k \in DOMAIN svcLog :
        /\ svcLog[k].initCalls = 1
        /\ svcLog[k].signCalls > 0 =>
              /\ services[k].initOk
              /\ \A c \in inFlight :
                    c.op = "initialize" => c.service # services[k].name
        /\ (k = Len(svcLog) /\ pc = "initialize") => svcLog[k].signCalls = 0
        /\ (k = Len(svcLog) /\ pc \in ChainPcs) =>
              /\ services[k].initOk
              /\ svcLog[k].signCalls <= 2 * Total

C26_Witness ==
    /\ pc = "sign"
    /\ chain = "solana"
    /\ svcLog[Len(svcLog)].signCalls > Total
    /\ svcLog[Len(svcLog)].initCalls = 1
    /\ Len(svcLog) >= 2

\* C27: a chain run makes one signing call per iteration, in order, and
\* W + N in all; an iteration that failed is behind the loop counter and
\* failed once; a measured iteration is signed only after W warmup calls.
C27_SinglePassNoRetry ==
    pc \in ChainPcs =>
        /\ i <= Total
        /\ pc = "chain_return" => i = Total
        /\ HasMethod(Service, chain) =>
              /\ signCalls = i + (IF pc \in {"sign", "verify", "sleep"} THEN 1 ELSE 0)
              /\ signFails = Cardinality(failedIters)
        /\ ~HasMethod(Service, chain) =>
              /\ signCalls = 0
              /\ failedIters = 0..(i - 1)
        /\ \A j \in failedIters : j < i
        /\ (pc \in {"sign", "verify"} /\ ~isWarmup(config, i)) => signCalls = i + 1
        /\ results # <<>> => signCalls > Warmups \/ ~HasMethod(Service, chain)

C27_Witness ==
    /\ pc = "chain_return"
    /\ signCalls = Total
    /\ Warmups >= 1
    /\ config.iterations >= 2
    /\ signFails >= 1
    /\ signFails < Total
    /\ 0 \in failedIters

SuccessFields == {"success", "signature", "apiLatencyMs", "walletAddress", "verified"}

\* the k-th record of the results of a chain run of service, if a Success,
\* is what signing call W + k returned
CarriesSignReturn(res, k, service, c) ==
    res[k].success =>
        /\ DOMAIN res[k] = SuccessFields
        /\ res[k].signature.id = Warmups + k
        /\ res[k].signature.msg = getChainMethods(c).message
        /\ res[k].signature.signer = WalletAddress(service.name, c)
        /\ res[k].apiLatencyMs = LatencyOf(service, Warmups + k)
        /\ res[k].walletAddress = WalletAddress(service.name, c)

\* C28: a Success record of a measured iteration has the signature, the
\* apiLatencyMs and the walletAddress its signing call returned, and nothing
\* else but success and verified: no time of the runner's own.
C28_SuccessCarriesSignReturn ==
    /\ pc \in ChainPcs =>
          /\ \A k \in DOMAIN results : CarriesSignReturn(results, k, Service, chain)
          /\ (pc \in {"loop", "sleep", "chain_return"} /\ last.sign = "ok"
                  /\ ~isWarmup(config, last.iter)) =>
                LET r == results[Len(results)]
                IN  /\ r.signature = serviceResult[1].signature
                    /\ r.apiLatencyMs = serviceResult[1].apiLatencyMs
                    /\ r.walletAddress = serviceResult[1].walletAddress
    /\ \A cr \in ReturnedChainResults :
          \A k \in DOMAIN cr.results :
              CarriesSignReturn(cr.results, k, ServiceNamed(cr.serviceName), cr.chain)

C28_Witness ==
    /\ pc = "chain_return"
    /\ chain = "solana"
    /\ Warmups >= 1
    /\ Len(results) = 2
    /\ ~results[1].success
    /\ results[2].success
    /\ results[2].signature.kind = "invalid"
    /\ "ethereum" \in DOMAIN result

\* C29: an iteration whose signing call failed has no verification call;
\* its Failure record has the error's message and no verified field, so the
\* verification counts are those of the Success records alone.
C29_FailedSignIsNeverVerified ==
    pc \in ChainPcs =>
        /\ last.sign \in {"failed", "threw"} => (last.verify = "none" /\ pc # "verify")
        /\ verifyCalls + signFails <= signCalls
        /\ \A k \in DOMAIN results :
              ~results[k].success =>
                  /\ DOMAIN results[k] = {"success", "error"}
                  /\ results[k].error.message # ""
        /\ countVerifications(results)
              = countVerifications(SelectSeq(results, LAMBDA r : r.success))

C29_Witness ==
    /\ pc = "chain_return"
    /\ config.iterations >= 2
    /\ last.sign = "failed"
    /\ ~isWarmup(config, last.iter)
    /\ ~results[Len(results)].success
    /\ results[1].success
    /\ results[1].verified = FALSE
    /\ verifyCalls < signCalls

\* C30: calculateAllStats leaves the BenchmarkResult list it is given as it
\* was, every results sequence included, and rankServicesByChain leaves the
\* ServiceStats list and the BenchmarkResult list as they were.
C30_ReportLeavesInputsUnchanged ==
    [][ /\ (pc = "returned" /\ pc' = "stats") => batchResults' = batchResults
        /\ (pc = "stats" /\ pc' = "reported") =>
              /\ allStats' = allStats
              /\ batchResults' = batchResults ]_vars

C30_Witness ==
    /\ pc = "reported"
    /\ \E k \in DOMAIN allStats[1] :
          /\ "consolidated" \in DOMAIN allStats[1][k]
          /\ allStats[1][k].ethereum.latencies
                # SuccessfulLatencies(batchResults[k].ethereum.results)
    /\ Len(rankings[1].ethereum) >= 2
    /\ \E j \in DOMAIN rankings[1].ethereum :
          StatsIndex(rankings[1].ethereum[j].serviceName) # j

----------------------------------------------------------------------------
(* Properties of the MagicWalletService                                    *)

MagicResults == {k \in DOMAIN batchResults : batchResults[k].serviceName = "magic"}

\* C37: initialize() of the MagicWalletService never resolves: every call
\* of it, the runner's or another caller's, rejects on the credentials it
\* has just set to empty strings and leaves isInitialized false; every
\* signing call on the object rejects with 'Not initialized'; the runner
\* makes no signing call on it and returns no result for it, while the
\* other services of the batch are returned.
C37_MagicNeverInitializes ==
    /\ ~magic.isInitialized
    /\ Falsy(magic.jwtToken) /\ Falsy(magic.apiKey) /\ Falsy(magic.oidcProviderId)
    /\ \A k \in DOMAIN magicLog :
          magicLog[k].outcome
              = IF magicLog[k].op = "initialize"
                THEN "Missing required env vars"
                ELSE "Not initialized. Call initialize() first."
    /\ MagicResults = {}
    /\ \A k \in DOMAIN svcLog :
          svcLog[k].name = "magic" =>
              /\ svcLog[k].signCalls = 0
              /\ svcLog[k].outcome # "returned"
    /\ pc = "returned" =>
          /\ Len(batchResults) = Len(services) - 1
          /\ \E k \in DOMAIN magicLog : magicLog[k].by = "runner"

C37_Witness ==
    /\ pc = "returned"
    /\ Len(services) = 3
    /\ services[2] = MagicService
    /\ Len(batchResults) = 2
    /\ WantsEthereum(config)
    /\ config.iterations >= 1
    /\ Len(magicLog) = 3
    /\ magicLog[1] = [op |-> "initialize", by |-> "caller",
                      outcome |-> "Missing required env vars"]
    /\ magicLog[2].by = "runner"
    /\ magicLog[3].op = "signMessageEthereum"

----------------------------------------------------------------------------
(* Properties of a run as a whole                                          *)

\* C31: the runner never gives up a signing call: as long as the call it
\* awaits has not settled, the control flow stays at the call, so no later
\* iteration, chain or service starts, nothing is recorded and
\* runBenchmarks does not return.
C31_HungSignBlocksRun ==
    [][ (pc = "sign" /\ Call("sign", i) \in inFlight') =>
            /\ pc' = "sign"
            /\ UNCHANGED <<i, chain, svcIdx, signCalls, results, result,
                           batchResults, inFlight, svcLog>> ]_vars

C31_Witness ==
    /\ pc = "sign"
    /\ inFlight = {Call("sign", i)}
    /\ svcIdx < Len(services)
    /\ config.chain = "both"
    /\ chain = "ethereum"
    /\ Service.hasSol
    /\ i >= 1
    /\ i < Total - 1

----------------------------------------------------------------------------
(* Properties of the statistics of recorded outcomes                       *)

Ascending(seq) == \A j \in 1..(Len(seq) - 1) : FLeq(seq[j], seq[j + 1])

\* the Success records of a results sequence whose verification failed
UnverifiedSuccesses(res) ==
    {j \in DOMAIN res : res[j].success /\ res[j].verified = FALSE}

\* C32: the latencies of a ChainStats are in ascending order, as many as
\* its successCount, and are the apiLatencyMs values of the Success records
\* of the chain's results, each as often as it was recorded, those of
\* unverified Successes among them; the consolidated latencies are ascending
\* and as many as the consolidated successCount.
C32_LatenciesAreSortedSuccesses ==
    StatsReady =>
        \A k \in DOMAIN allStats[1] :
            /\ \A c \in RankedChains :
                  c \in DOMAIN allStats[1][k] =>
                      LET st == allStats[1][k][c]
                          res == batchResults[k][c].results
                      IN  /\ Ascending(st.latencies)
                          /\ Len(st.latencies) = st.successCount
                          /\ st.successCount = successCountOf(res)
                          /\ SameElements(st.latencies, SuccessfulLatencies(res))
                          /\ \A j \in UnverifiedSuccesses(res) :
                                Occurrences(st.latencies, res[j].apiLatencyMs) >= 1
            /\ "consolidated" \in DOMAIN allStats[1][k] =>
                  /\ Ascending(allStats[1][k].consolidated.latencies)
                  /\ Len(allStats[1][k].consolidated.latencies)
                        = allStats[1][k].consolidated.successCount

C32_Witness ==
    /\ pc = "stats"
    /\ \E k \in DOMAIN allStats[1] :
          /\ "consolidated" \in DOMAIN allStats[1][k]
          /\ UnverifiedSuccesses(batchResults[k].ethereum.results) = {2}
          /\ batchResults[k].ethereum.results[1].success
          /\ allStats[1][k].ethereum.latencies = <<FromInt(100), FromInt(130)>>
          /\ batchResults[k].ethereum.results[1].apiLatencyMs = FromInt(130)
          /\ allStats[1][k].solana.latencies = <<FromInt(110)>>
          /\ allStats[1][k].solana.verifiedCount = 0
          /\ allStats[1][k].solana.errorCount = 1

\* the same outcomes with every Success verified
AsVerified(res) ==
    [j \in DOMAIN res |->
        IF res[j].success THEN [res[j] EXCEPT !.verified = TRUE] ELSE res[j]]

ResultAsVerified(br) ==
    [f \in DOMAIN br |->
        IF f = "serviceName" THEN br[f]
        ELSE [br[f] EXCEPT !.results = AsVerified(br[f].results)]]

VerificationFields == {"verifiedCount", "verificationFailures"}

\* a ChainStats without its verification counts
Unverified(st) == [f \in DOMAIN st \ VerificationFields |-> st[f]]

\* C33: a measured iteration that signed and failed verification is
\* recorded as a Success with its latency; the statistics and the rankings
\* of the results are those the same results would have with every Success
\* verified, except that verificationFailures counts the unverified
\* Successes and verifiedCount the others.
C33_VerificationDoesNotGate ==
    /\ (pc \in ChainPcs /\ last.verify = "false" /\ ~isWarmup(config, last.iter)) =>
          /\ results[Len(results)].success
          /\ results[Len(results)].verified = FALSE
          /\ results[Len(results)].apiLatencyMs = serviceResult[1].apiLatencyMs
    /\ pc = "reported" =>
          LET asVerified == calculateAllStats([k \in DOMAIN batchResults |->
                                                 ResultAsVerified(batchResults[k])])
          IN  /\ \A k \in DOMAIN allStats[1] :
                    \A f \in DOMAIN allStats[1][k] \ {"serviceName"} :
                        /\ Unverified(allStats[1][k][f]) = Unverified(asVerified[k][f])
                        /\ allStats[1][k][f].verifiedCount
                              + allStats[1][k][f].verificationFailures
                              = asVerified[k][f].verifiedCount
                    /\ \A c \in DOMAIN allStats[1][k] \ {"serviceName", "consolidated"} :
                          /\ allStats[1][k][c].verificationFailures
                                = Cardinality(UnverifiedSuccesses(batchResults[k][c].results))
                          /\ allStats[1][k][c].successCount
                                = successCountOf(batchResults[k][c].results)
              /\ \A c \in DOMAIN rankings[1] :
                    rankings[1][c] = rankServicesByChain(asVerified, c)

C33_Witness ==
    /\ pc = "reported"
    /\ "ethereum" \in DOMAIN rankings[1]
    /\ Len(rankings[1].ethereum) = 2
    /\ \E k \in DOMAIN allStats[1] :
          /\ allStats[1][k].serviceName = "D"
          /\ allStats[1][k].ethereum.successCount = 2
          /\ allStats[1][k].ethereum.verificationFailures = 1
          /\ allStats[1][k].ethereum.verifiedCount = 1
          /\ rankings[1].ethereum[1].serviceName = "D"
          /\ rankings[1].ethereum[1].median
                = FDivInt(FAdd(batchResults[k].ethereum.results[1].apiLatencyMs,
                               batchResults[k].ethereum.results[2].apiLatencyMs), 2)


----------------------------------------------------------------------------
(* Properties of the results sequence of a chain run                       *)

\* the measured iterations of the current chain run that have recorded their
\* outcome (during the delay the loop counter is not yet advanced)
MeasuredDone ==
    LET finished == IF pc = "sleep" THEN i + 1 ELSE i
    IN  IF finished > Warmups THEN finished - Warmups ELSE 0

\* res continues old by at most one entry at its end
ExtendsByAtMostOne(old, new) ==
    /\ Len(new) \in {Len(old), Len(old) + 1}
    /\ SubSeq(new, 1, Len(old)) = old

\* a step of a chain run: the entries already recorded stay in place, at
\* most one is added at the end, and the run hands over what it built
ResultsStep ==
    pc \in ChainPcs =>
        /\ ExtendsByAtMostOne(results, results')
        /\ IF pc = "chain_return"
           THEN /\ result'[chain].results = results
                /\ \A f \in DOMAIN result : result'[f] = result[f]
           ELSE result' = result

\* C34: during a chain run the k-th entry of results is the outcome of the
\* k-th measured iteration (the call number W + k), there is one entry per
\* measured iteration that has finished, and every step of the run leaves
\* the entries already there in place, adding at most one at the end; the
\* sequence a chain run returns is the one it built, and it is not touched
\* while the other chain runs.
C34_ResultsInExecutionOrder ==
    /\ [](pc \in ChainPcs =>
            /\ Len(results) = MeasuredDone
            /\ \A k \in DOMAIN results : Origin(results[k]) = Warmups + k)
    /\ [][ResultsStep]_vars

C34_Witness ==
    /\ pc = "chain_return"
    /\ chain = "solana"
    /\ "ethereum" \in DOMAIN result
    /\ Warmups >= 1
    /\ Len(results) = 2
    /\ results[1].success /\ ~results[2].success
    /\ \E k \in DOMAIN result.ethereum.results : ~result.ethereum.results[k].success


----------------------------------------------------------------------------
(* Termination                                                             *)

RequestedChains == IF config.chain = "both" THEN 2 ELSE 1

\* C35: when every awaited call eventually settles, runBenchmarks returns,
\* and no service ever receives more than
\* (number of requested chains) * (W + N) signing calls.
C35_TerminatesWithBoundedSigning ==
    /\ <>(pc = "returned")
    /\ [](\A k \in DOMAIN svcLog : svcLog[k].signCalls <= RequestedChains * Total)

C35_Witness ==
    /\ pc = "returned"
    /\ Len(services) = MaxServices
    /\ config.chain = "both"
    /\ Total >= 2
    /\ \E k \in DOMAIN svcLog : svcLog[k].signCalls = 2 * Total
    /\ \E k \in DOMAIN svcLog : svcLog[k].outcome = "raised"
    /\ \E k \in DOMAIN svcLog :
          svcLog[k].outcome = "returned" /\ svcLog[k].signCalls < 2 * Total


----------------------------------------------------------------------------
(* Properties of a run on both chains                                      *)

\* every Success of res was signed for chain c
SignedFor(res, c) ==
    \A k \in DOMAIN res :
        res[k].success =>
            /\ res[k].signature.msg = getChainMethods(c).message
            /\ res[k].signature.signer[2] = c

\* the signing calls the current service has received in its Ethereum run
EthereumSignCalls == IF Service.hasEth THEN Total ELSE 0

\* C36: with chain = "both" the Ethereum run of a service comes first and is
\* complete before the Solana run makes its first signing call: while the
\* Ethereum run is under way nothing of Solana exists (no Solana result, no
\* signing call with the Solana message, no call beyond those of this run),
\* and while the Solana run is under way the Ethereum result is already
\* returned with all its N entries and all W + N Ethereum calls are made;
\* each run fills a sequence of its own, holding only its own chain's
\* outcomes.
C36_EthereumThenSolana ==
    config.chain = "both" =>
        /\ (pc \in ChainPcs /\ chain = "ethereum") =>
              /\ DOMAIN result = {"serviceName"}
              /\ signArg # STANDARD_SOLANA_MESSAGE
              /\ svcLog[Len(svcLog)].signCalls = signCalls
              /\ SignedFor(results, "ethereum")
        /\ (pc \in ChainPcs /\ chain = "solana") =>
              /\ DOMAIN result = {"serviceName", "ethereum"}
              /\ Len(result.ethereum.results) = config.iterations
              /\ SignedFor(result.ethereum.results, "ethereum")
              /\ svcLog[Len(svcLog)].signCalls = EthereumSignCalls + signCalls
              /\ signArg # STANDARD_ETHEREUM_MESSAGE
              /\ Len(results) <= config.iterations
              /\ SignedFor(results, "solana")
        /\ pc = "sol_check" => "ethereum" \in DOMAIN result
        /\ \A k \in DOMAIN batchResults :
              /\ "ethereum" \in DOMAIN batchResults[k]
              /\ SignedFor(batchResults[k].ethereum.results, "ethereum")
              /\ "solana" \in DOMAIN batchResults[k] =>
                    /\ SignedFor(batchResults[k].solana.results, "solana")
                    /\ Len(batchResults[k].solana.results) = config.iterations

C36_Witness ==
    /\ config.chain = "both"
    /\ pc = "sign"
    /\ chain = "solana"
    /\ signCalls = 1
    /\ Warmups >= 1
    /\ Len(result.ethereum.results) = 2
    /\ result.ethereum.results[1].success
    /\ ~result.ethereum.results[2].success

====
